---- MODULE Spec2Model ----
(***************************************************************************)
(* Streaming digest engine of the ssl tool: the generic block-buffering    *)
(* Writer (libs/hash.rs), the standalone md5::Context (md5.rs) and the MD5 *)
(* compression function.                                                   *)
(*                                                                         *)
(* Numbers.  TLC's integers are 32-bit signed, so a u32 is kept as the     *)
(* pair <<hi, lo>> of its 16-bit halves and a u64 as the tuple             *)
(* <<l3, l2, l1, l0>> of its 16-bit limbs, most significant first.  A byte *)
(* is an integer in 0..255, and a byte array is a sequence (index 1 of the *)
(* model is index 0 of the code).                                          *)
(***************************************************************************)
EXTENDS Integers, Sequences, FiniteSets, TLC

(***************************************************************************)
(* Machine arithmetic                                                      *)
(***************************************************************************)
POW2 == <<1, 2, 4, 8, 16, 32, 64, 128, 256, 512, 1024, 2048, 4096, 8192, 16384, 32768, 65536>>
Pow2(n) == POW2[n + 1]

\* u32 value with halves hi and lo
W(hi, lo) == <<hi, lo>>

\* x & y, x | y and x ^ y on 4-bit digits
AND4 ==
  <<<< 0,  0,  0,  0,  0,  0,  0,  0,  0,  0,  0,  0,  0,  0,  0,  0>>,
    << 0,  1,  0,  1,  0,  1,  0,  1,  0,  1,  0,  1,  0,  1,  0,  1>>,
    << 0,  0,  2,  2,  0,  0,  2,  2,  0,  0,  2,  2,  0,  0,  2,  2>>,
    << 0,  1,  2,  3,  0,  1,  2,  3,  0,  1,  2,  3,  0,  1,  2,  3>>,
    << 0,  0,  0,  0,  4,  4,  4,  4,  0,  0,  0,  0,  4,  4,  4,  4>>,
    << 0,  1,  0,  1,  4,  5,  4,  5,  0,  1,  0,  1,  4,  5,  4,  5>>,
    << 0,  0,  2,  2,  4,  4,  6,  6,  0,  0,  2,  2,  4,  4,  6,  6>>,
    << 0,  1,  2,  3,  4,  5,  6,  7,  0,  1,  2,  3,  4,  5,  6,  7>>,
    << 0,  0,  0,  0,  0,  0,  0,  0,  8,  8,  8,  8,  8,  8,  8,  8>>,
    << 0,  1,  0,  1,  0,  1,  0,  1,  8,  9,  8,  9,  8,  9,  8,  9>>,
    << 0,  0,  2,  2,  0,  0,  2,  2,  8,  8, 10, 10,  8,  8, 10, 10>>,
    << 0,  1,  2,  3,  0,  1,  2,  3,  8,  9, 10, 11,  8,  9, 10, 11>>,
    << 0,  0,  0,  0,  4,  4,  4,  4,  8,  8,  8,  8, 12, 12, 12, 12>>,
    << 0,  1,  0,  1,  4,  5,  4,  5,  8,  9,  8,  9, 12, 13, 12, 13>>,
    << 0,  0,  2,  2,  4,  4,  6,  6,  8,  8, 10, 10, 12, 12, 14, 14>>,
    << 0,  1,  2,  3,  4,  5,  6,  7,  8,  9, 10, 11, 12, 13, 14, 15>>>>
OR4 ==
  <<<< 0,  1,  2,  3,  4,  5,  6,  7,  8,  9, 10, 11, 12, 13, 14, 15>>,
    << 1,  1,  3,  3,  5,  5,  7,  7,  9,  9, 11, 11, 13, 13, 15, 15>>,
    << 2,  3,  2,  3,  6,  7,  6,  7, 10, 11, 10, 11, 14, 15, 14, 15>>,
    << 3,  3,  3,  3,  7,  7,  7,  7, 11, 11, 11, 11, 15, 15, 15, 15>>,
    << 4,  5,  6,  7,  4,  5,  6,  7, 12, 13, 14, 15, 12, 13, 14, 15>>,
    << 5,  5,  7,  7,  5,  5,  7,  7, 13, 13, 15, 15, 13, 13, 15, 15>>,
    << 6,  7,  6,  7,  6,  7,  6,  7, 14, 15, 14, 15, 14, 15, 14, 15>>,
    << 7,  7,  7,  7,  7,  7,  7,  7, 15, 15, 15, 15, 15, 15, 15, 15>>,
    << 8,  9, 10, 11, 12, 13, 14, 15,  8,  9, 10, 11, 12, 13, 14, 15>>,
    << 9,  9, 11, 11, 13, 13, 15, 15,  9,  9, 11, 11, 13, 13, 15, 15>>,
    <<10, 11, 10, 11, 14, 15, 14, 15, 10, 11, 10, 11, 14, 15, 14, 15>>,
    <<11, 11, 11, 11, 15, 15, 15, 15, 11, 11, 11, 11, 15, 15, 15, 15>>,
    <<12, 13, 14, 15, 12, 13, 14, 15, 12, 13, 14, 15, 12, 13, 14, 15>>,
    <<13, 13, 15, 15, 13, 13, 15, 15, 13, 13, 15, 15, 13, 13, 15, 15>>,
    <<14, 15, 14, 15, 14, 15, 14, 15, 14, 15, 14, 15, 14, 15, 14, 15>>,
    <<15, 15, 15, 15, 15, 15, 15, 15, 15, 15, 15, 15, 15, 15, 15, 15>>>>
XOR4 ==
  <<<< 0,  1,  2,  3,  4,  5,  6,  7,  8,  9, 10, 11, 12, 13, 14, 15>>,
    << 1,  0,  3,  2,  5,  4,  7,  6,  9,  8, 11, 10, 13, 12, 15, 14>>,
    << 2,  3,  0,  1,  6,  7,  4,  5, 10, 11,  8,  9, 14, 15, 12, 13>>,
    << 3,  2,  1,  0,  7,  6,  5,  4, 11, 10,  9,  8, 15, 14, 13, 12>>,
    << 4,  5,  6,  7,  0,  1,  2,  3, 12, 13, 14, 15,  8,  9, 10, 11>>,
    << 5,  4,  7,  6,  1,  0,  3,  2, 13, 12, 15, 14,  9,  8, 11, 10>>,
    << 6,  7,  4,  5,  2,  3,  0,  1, 14, 15, 12, 13, 10, 11,  8,  9>>,
    << 7,  6,  5,  4,  3,  2,  1,  0, 15, 14, 13, 12, 11, 10,  9,  8>>,
    << 8,  9, 10, 11, 12, 13, 14, 15,  0,  1,  2,  3,  4,  5,  6,  7>>,
    << 9,  8, 11, 10, 13, 12, 15, 14,  1,  0,  3,  2,  5,  4,  7,  6>>,
    <<10, 11,  8,  9, 14, 15, 12, 13,  2,  3,  0,  1,  6,  7,  4,  5>>,
    <<11, 10,  9,  8, 15, 14, 13, 12,  3,  2,  1,  0,  7,  6,  5,  4>>,
    <<12, 13, 14, 15,  8,  9, 10, 11,  4,  5,  6,  7,  0,  1,  2,  3>>,
    <<13, 12, 15, 14,  9,  8, 11, 10,  5,  4,  7,  6,  1,  0,  3,  2>>,
    <<14, 15, 12, 13, 10, 11,  8,  9,  6,  7,  4,  5,  2,  3,  0,  1>>,
    <<15, 14, 13, 12, 11, 10,  9,  8,  7,  6,  5,  4,  3,  2,  1,  0>>>>

\* a 4-bit table applied digit by digit to two 16-bit values
op16(T, x, y) ==
    T[(x % 16) + 1][(y % 16) + 1]
  + 16 * T[((x \div 16) % 16) + 1][((y \div 16) % 16) + 1]
  + 256 * T[((x \div 256) % 16) + 1][((y \div 256) % 16) + 1]
  + 4096 * T[(x \div 4096) + 1][(y \div 4096) + 1]

\* u32: x & y
u32_and(x, y) == <<op16(AND4, x[1], y[1]), op16(AND4, x[2], y[2])>>
\* u32: x | y
u32_or(x, y) == <<op16(OR4, x[1], y[1]), op16(OR4, x[2], y[2])>>
\* u32: x ^ y
u32_xor(x, y) == <<op16(XOR4, x[1], y[1]), op16(XOR4, x[2], y[2])>>
\* u32: !x
u32_not(x) == <<65535 - x[1], 65535 - x[2]>>
\* u32: x.wrapping_add(y)
u32_wrapping_add(x, y) ==
  LET lo == x[2] + y[2]
  IN  <<(x[1] + y[1] + (lo \div 65536)) % 65536, lo % 65536>>
\* u32: x << s, for a shift count 0 <= s < 32
u32_shl(x, s) ==
  IF s >= 16
    THEN <<(x[2] % Pow2(32 - s)) * Pow2(s - 16), 0>>
    ELSE <<(x[1] % Pow2(16 - s)) * Pow2(s) + (x[2] \div Pow2(16 - s)),
           (x[2] % Pow2(16 - s)) * Pow2(s)>>
\* u32: x >> s, for a shift count 0 <= s < 32
u32_shr(x, s) ==
  IF s >= 16
    THEN <<0, x[1] \div Pow2(s - 16)>>
    ELSE <<x[1] \div Pow2(s),
           (x[1] % Pow2(s)) * Pow2(16 - s) + (x[2] \div Pow2(s))>>
\* (b as u32) << (8 * k) for a byte b and k in 0..3
u32_from_byte(b, k) ==
  CASE k = 0 -> <<0, b>>
    [] k = 1 -> <<0, b * 256>>
    [] k = 2 -> <<b, 0>>
    [] k = 3 -> <<b * 256, 0>>
\* ((x >> (8 * k)) & 0xff) as u8, for k in 0..3
u32_byte(x, k) ==
  CASE k = 0 -> x[2] % 256
    [] k = 1 -> x[2] \div 256
    [] k = 2 -> x[1] % 256
    [] k = 3 -> x[1] \div 256


\* A usize is 64 bits wide (a 64-bit target), so `x as u64` changes nothing.
\* usize: x.wrapping_add(n), for a length n below 2^30
usize_wrapping_add(x, n) ==
  LET s0 == x[4] + n
      s1 == x[3] + (s0 \div 65536)
      s2 == x[2] + (s1 \div 65536)
      s3 == x[1] + (s2 \div 65536)
  IN  <<s3 % 65536, s2 % 65536, s1 % 65536, s0 % 65536>>
\* a faulty variant of wrapping_mul: x.saturating_mul(m)
u64_saturating_mul(x, m) ==
  LET p0 == x[4] * m
      p1 == x[3] * m + (p0 \div 65536)
      p2 == x[2] * m + (p1 \div 65536)
      p3 == x[1] * m + (p2 \div 65536)
  IN  IF p3 >= 65536 THEN <<65535, 65535, 65535, 65535>>
      ELSE <<p3, p2 % 65536, p1 % 65536, p0 % 65536>>
\* u64: x.wrapping_mul(m), for a factor m below 2^15
u64_wrapping_mul(x, m) ==
  LET p0 == x[4] * m
      p1 == x[3] * m + (p0 \div 65536)
      p2 == x[2] * m + (p1 \div 65536)
      p3 == x[1] * m + (p2 \div 65536)
  IN  <<p3 % 65536, p2 % 65536, p1 % 65536, p0 % 65536>>
\* ((x >> (8 * k)) & 0xff) as u8 for a u64 x and k in 0..7
u64_byte(x, k) ==
  LET limb == x[4 - (k \div 2)]
  IN  IF k % 2 = 0 THEN limb % 256 ELSE limb \div 256

(***************************************************************************)
(* Slices.  dst[a..b].clone_from_slice(src) panics unless a <= b, b is     *)
(* within dst and src has exactly b - a bytes; src[a..b] panics unless     *)
(* a <= b and b is within src.  Offsets are those of the code, from 0.     *)
(***************************************************************************)
slice_ok(a, b, len) == 0 <= a /\ a <= b /\ b <= len
clone_ok(a, b, dst_len, src_len) == slice_ok(a, b, dst_len) /\ src_len = b - a
\* dst after dst[a..a + Len(src)].clone_from_slice(src)
clone_from_slice(dst, a, src) ==
  [i \in 1..Len(dst) |-> IF i > a /\ i <= a + Len(src) THEN src[i - a] ELSE dst[i]]
\* src[a..b]
slice(src, a, b) == SubSeq(src, a + 1, b)

(***************************************************************************)
(* md5.rs: the MD5 compression function                                    *)
(***************************************************************************)
A0 == W(\h6745, \h2301)
B0 == W(\hefcd, \hab89)
C0 == W(\h98ba, \hdcfe)
D0 == W(\h1032, \h5476)

\* a faulty table: the fourth amount of every group is a full turn
S_full_turn == [i \in 1..64 |-> <<7, 12, 17, 32>>[((i - 1) % 4) + 1]]

S ==
  <<7, 12, 17, 22, 7, 12, 17, 22, 7, 12, 17, 22, 7, 12, 17, 22,
    5, 9, 14, 20, 5, 9, 14, 20, 5, 9, 14, 20, 5, 9, 14, 20,
    4, 11, 16, 23, 4, 11, 16, 23, 4, 11, 16, 23, 4, 11, 16, 23,
    6, 10, 15, 21, 6, 10, 15, 21, 6, 10, 15, 21, 6, 10, 15, 21>>

K ==
  <<W(\hd76a, \ha478), W(\he8c7, \hb756), W(\h2420, \h70db), W(\hc1bd, \hceee),
    W(\hf57c, \h0faf), W(\h4787, \hc62a), W(\ha830, \h4613), W(\hfd46, \h9501),
    W(\h6980, \h98d8), W(\h8b44, \hf7af), W(\hffff, \h5bb1), W(\h895c, \hd7be),
    W(\h6b90, \h1122), W(\hfd98, \h7193), W(\ha679, \h438e), W(\h49b4, \h0821),
    W(\hf61e, \h2562), W(\hc040, \hb340), W(\h265e, \h5a51), W(\he9b6, \hc7aa),
    W(\hd62f, \h105d), W(\h0244, \h1453), W(\hd8a1, \he681), W(\he7d3, \hfbc8),
    W(\h21e1, \hcde6), W(\hc337, \h07d6), W(\hf4d5, \h0d87), W(\h455a, \h14ed),
    W(\ha9e3, \he905), W(\hfcef, \ha3f8), W(\h676f, \h02d9), W(\h8d2a, \h4c8a),
    W(\hfffa, \h3942), W(\h8771, \hf681), W(\h6d9d, \h6122), W(\hfde5, \h380c),
    W(\ha4be, \hea44), W(\h4bde, \hcfa9), W(\hf6bb, \h4b60), W(\hbebf, \hbc70),
    W(\h289b, \h7ec6), W(\heaa1, \h27fa), W(\hd4ef, \h3085), W(\h0488, \h1d05),
    W(\hd9d4, \hd039), W(\he6db, \h99e5), W(\h1fa2, \h7cf8), W(\hc4ac, \h5665),
    W(\hf429, \h2244), W(\h432a, \hff97), W(\hab94, \h23a7), W(\hfc93, \ha039),
    W(\h655b, \h59c3), W(\h8f0c, \hcc92), W(\hffef, \hf47d), W(\h8584, \h5dd1),
    W(\h6fa8, \h7e4f), W(\hfe2c, \he6e0), W(\ha301, \h4314), W(\h4e08, \h11a1),
    W(\hf753, \h7e82), W(\hbd3a, \hf235), W(\h2ad7, \hd2bb), W(\heb86, \hd391)>>

left_rotate(x, s) == u32_or(u32_shl(x, s), u32_shr(x, 32 - s))

as_u32_le(bytes) ==
  u32_wrapping_add(
    u32_wrapping_add(
      u32_wrapping_add(u32_from_byte(bytes[1], 0), u32_from_byte(bytes[2], 1)),
      u32_from_byte(bytes[3], 2)),
    u32_from_byte(bytes[4], 3))

\* a faulty variant of as_u8_le: the most significant byte first
as_u8_le_big(x) == <<u32_byte(x, 3), u32_byte(x, 2), u32_byte(x, 1), u32_byte(x, 0)>>

as_u8_le(x) == <<u32_byte(x, 0), u32_byte(x, 1), u32_byte(x, 2), u32_byte(x, 3)>>

\* chunk.chunks(4).enumerate(): word i (from 0) is bytes 4i .. 4i+3
split_words(chunk) ==
  [i \in 1..16 |-> as_u32_le(<<chunk[4 * i - 3], chunk[4 * i - 2], chunk[4 * i - 1], chunk[4 * i]>>)]

\* a faulty variant of the word index: the coefficients of round 3 exchanged
md5_g_swapped(i) ==
  IF i < 16 THEN i
  ELSE IF i < 32 THEN (5 * i + 1) % 16
  ELSE IF i < 48 THEN (5 * i + 3) % 16
  ELSE (7 * i) % 16

\* a faulty variant of the word index: 4 for 5 in the second group of rounds
md5_g_four(i) ==
  IF i < 16 THEN i
  ELSE IF i < 32 THEN (4 * i + 1) % 16
  ELSE IF i < 48 THEN (3 * i + 5) % 16
  ELSE (7 * i) % 16

\* index of the message word used by round i (g_temp)
md5_g(i) ==
  IF i < 16 THEN i
  ELSE IF i < 32 THEN (5 * i + 1) % 16
  ELSE IF i < 48 THEN (3 * i + 5) % 16
  ELSE (7 * i) % 16

\* the round function of round i (f_temp before the additions)
md5_f(i, b, c, d) ==
  IF i < 16 THEN u32_or(u32_and(b, c), u32_and(u32_not(b), d))
  ELSE IF i < 32 THEN u32_or(u32_and(d, b), u32_and(u32_not(d), c))
  ELSE IF i < 48 THEN u32_xor(u32_xor(b, c), d)
  ELSE u32_xor(c, u32_or(b, u32_not(d)))

\* one iteration of the loop of eat_chunk; t holds the loop counter i and
\* the temporaries a_temp, b_temp, c_temp, d_temp
md5_round(t, words) ==
  LET f_temp == u32_wrapping_add(md5_f(t.i, t.b, t.c, t.d),
                   u32_wrapping_add(u32_wrapping_add(t.a, K[t.i + 1]), words[md5_g(t.i) + 1]))
  IN  [i |-> t.i + 1,
       a |-> t.d,
       b |-> u32_wrapping_add(t.b, left_rotate(f_temp, S[t.i + 1])),
       c |-> t.b,
       d |-> t.c]

\* for i in 0usize..64
RECURSIVE md5_rounds(_, _)
md5_rounds(t, words) ==
  IF t.i >= 64 THEN t ELSE md5_rounds(md5_round(t, words), words)


(***************************************************************************)
(* Constants shared by libs/hash.rs and md5.rs                             *)
(***************************************************************************)
CHUNK_BYTE_SIZE == 64
DATA_BITS_LENGTH_BYTE_SIZE == 8
END_OF_DATA_BYTE_SIZE == 1
PADDING == [i \in 1..CHUNK_BYTE_SIZE |-> IF i = 1 THEN 128 ELSE 0]

U64_ZERO == <<0, 0, 0, 0>>

\* the number zero as 8 base-256 digits, least significant first
NoDigits == [j \in 1..8 |-> 0]

(***************************************************************************)
(* libs/hash.rs: the generic Writer<Ctx>.                                  *)
(*                                                                         *)
(* The Ctx driven here is the one that records what it is handed: its      *)
(* state is the sequence of blocks passed to compress and its digest is    *)
(* that sequence, so whatever a deterministic compression function would   *)
(* compute is a function of it.                                            *)
(*                                                                         *)
(* Three fields of the records below are not fields of the code: probe is  *)
(* the value of data_bytes_len seen at each compress of the call in        *)
(* progress, panicked tells that a slice operation of the call panicked    *)
(* (the engine is then left as it was when it did), and elided counts      *)
(* blocks the hasher was handed that its sequence does not list: the       *)
(* blocks handed to the hasher are elided blocks of 64 bytes 0x41 followed *)
(* by the sequence.  A Writer constructed by new has elided none; only an  *)
(* engine in long use (Aged) has.                                          *)
(***************************************************************************)
Ctx_new == <<>>
Ctx_compress(hasher, chunk) == Append(hasher, chunk)
Ctx_get_digest(hasher) == hasher

Writer_new(hasher, endian) ==
  [buf |-> [i \in 1..CHUNK_BYTE_SIZE |-> 0],
   buf_seed |-> 0,
   data_bytes_len |-> U64_ZERO,
   hasher |-> hasher,
   endian |-> endian,
   elided |-> NoDigits,
   probe |-> <<>>,
   panicked |-> FALSE]

\* a faulty variant of compress: the block is handed to the hasher twice
Writer_compress_twice(self) ==
  [self EXCEPT !.hasher = Ctx_compress(Ctx_compress(@, self.buf), self.buf),
               !.probe = Append(Append(@, self.data_bytes_len), self.data_bytes_len)]

\* self.hasher.compress(&self.buf)
Writer_compress(self) ==
  [self EXCEPT !.hasher = Ctx_compress(@, self.buf),
               !.probe = Append(@, self.data_bytes_len)]

\* a faulty variant of fill_data_len: little-endian whatever the endian field
Writer_fill_data_len_little(self, bits_len) ==
  [self EXCEPT !.buf =
     [i \in 1..CHUNK_BYTE_SIZE |->
        IF i <= CHUNK_BYTE_SIZE - 8 THEN self.buf[i]
        ELSE u64_byte(bits_len, i - 1 - (CHUNK_BYTE_SIZE - 8))]]

Writer_fill_data_len(self, bits_len) ==
  [self EXCEPT !.buf =
     [i \in 1..CHUNK_BYTE_SIZE |->
        IF i <= CHUNK_BYTE_SIZE - 8 THEN self.buf[i]
        ELSE IF self.endian = "Big"
          \* buf[CHUNK_BYTE_SIZE - j] = (bits_len >> 8 (j - 1)) & 0xff, j in 1..8
          THEN u64_byte(bits_len, CHUNK_BYTE_SIZE - i)
          \* buf[CHUNK_BYTE_SIZE - j] = (bits_len >> 8 (8 - j)) & 0xff, j in 1..8
          ELSE u64_byte(bits_len, i - 1 - (CHUNK_BYTE_SIZE - 8))]]

\* Faulty variants of the loop, for the properties below to tell apart.
\* This one copies the tail of the slice to the start of the accumulator
\* instead of to the offset.
RECURSIVE Writer_consume_loop_restart(_, _)
Writer_consume_loop_restart(self, buf) ==
  IF self.buf_seed + Len(buf) > CHUNK_BYTE_SIZE
    THEN LET copied == [self EXCEPT !.buf =
                          clone_from_slice(@, self.buf_seed,
                             slice(buf, 0, CHUNK_BYTE_SIZE - self.buf_seed))]
             compressed == Writer_compress(copied)
         IN  Writer_consume_loop_restart(
               [compressed EXCEPT !.buf_seed = 0],
               slice(buf, CHUNK_BYTE_SIZE - self.buf_seed, Len(buf)))
    ELSE [self EXCEPT !.buf = clone_from_slice(@, 0, buf),
                      !.buf_seed = @ + Len(buf)]

\* This one compresses a block as soon as it is full.
RECURSIVE Writer_consume_loop_eager(_, _)
Writer_consume_loop_eager(self, buf) ==
  IF self.buf_seed + Len(buf) >= CHUNK_BYTE_SIZE
    THEN LET copied == [self EXCEPT !.buf =
                          clone_from_slice(@, self.buf_seed,
                             slice(buf, 0, CHUNK_BYTE_SIZE - self.buf_seed))]
             compressed == Writer_compress(copied)
         IN  Writer_consume_loop_eager(
               [compressed EXCEPT !.buf_seed = 0],
               slice(buf, CHUNK_BYTE_SIZE - self.buf_seed, Len(buf)))
    ELSE [self EXCEPT !.buf = clone_from_slice(@, self.buf_seed, buf),
                      !.buf_seed = @ + Len(buf)]

\* This one compresses the accumulator at the end of a write that filled it.
RECURSIVE Writer_consume_loop_flush(_, _)
Writer_consume_loop_flush(self, buf) ==
  IF self.buf_seed + Len(buf) > CHUNK_BYTE_SIZE
    THEN LET copied == [self EXCEPT !.buf =
                          clone_from_slice(@, self.buf_seed,
                             slice(buf, 0, CHUNK_BYTE_SIZE - self.buf_seed))]
             compressed == Writer_compress(copied)
         IN  Writer_consume_loop_flush(
               [compressed EXCEPT !.buf_seed = 0],
               slice(buf, CHUNK_BYTE_SIZE - self.buf_seed, Len(buf)))
    ELSE LET filled == [self EXCEPT !.buf = clone_from_slice(@, self.buf_seed, buf),
                                    !.buf_seed = @ + Len(buf)]
         IN  IF filled.buf_seed = CHUNK_BYTE_SIZE
               THEN [Writer_compress(filled) EXCEPT !.buf_seed = 0]
               ELSE filled

\* the while loop of consume and the two statements after it
RECURSIVE Writer_consume_loop(_, _)
Writer_consume_loop(self, buf) ==
  IF self.buf_seed + Len(buf) > CHUNK_BYTE_SIZE
    THEN IF ~clone_ok(self.buf_seed, CHUNK_BYTE_SIZE, CHUNK_BYTE_SIZE,
                      CHUNK_BYTE_SIZE - self.buf_seed)
              \/ ~slice_ok(0, CHUNK_BYTE_SIZE - self.buf_seed, Len(buf))
           THEN [self EXCEPT !.panicked = TRUE]
           ELSE LET copied == [self EXCEPT !.buf =
                                 clone_from_slice(@, self.buf_seed,
                                    slice(buf, 0, CHUNK_BYTE_SIZE - self.buf_seed))]
                    eaten == Writer_compress(copied)
                IN  Writer_consume_loop(
                      [eaten EXCEPT !.buf_seed = 0],
                      slice(buf, CHUNK_BYTE_SIZE - self.buf_seed, Len(buf)))
    ELSE IF ~clone_ok(self.buf_seed, self.buf_seed + Len(buf), CHUNK_BYTE_SIZE, Len(buf))
           THEN [self EXCEPT !.panicked = TRUE]
           ELSE [self EXCEPT !.buf = clone_from_slice(@, self.buf_seed, buf),
                             !.buf_seed = @ + Len(buf)]

\* a faulty variant of consume: the counter is advanced after the loop
Writer_consume_count_last(self, buf) ==
  LET looped == Writer_consume_loop([self EXCEPT !.probe = <<>>], buf)
  IN  [looped EXCEPT !.data_bytes_len = usize_wrapping_add(@, Len(buf))]

Writer_consume(self, buf) ==
  Writer_consume_loop(
    [self EXCEPT !.data_bytes_len = usize_wrapping_add(@, Len(buf)),
                 !.probe = <<>>],
    buf)

\* the result of a call: Ok(n), or no result because the call panicked
Ok(n) == [ok |-> TRUE, n |-> n]
Panic == [ok |-> FALSE, n |-> 0]

\* a faulty variant of write: reports only the bytes that fitted the accumulator
Writer_write_partial(self, buf) ==
  LET after == Writer_consume(self, buf)
      room == CHUNK_BYTE_SIZE - self.buf_seed
  IN  [self |-> after,
       ret |-> IF after.panicked THEN Panic
               ELSE Ok(IF Len(buf) <= room THEN Len(buf) ELSE room)]

\* impl Write for Writer: write
Writer_write(self, buf) ==
  LET after == Writer_consume(self, buf)
  IN  [self |-> after, ret |-> IF after.panicked THEN Panic ELSE Ok(Len(buf))]

\* Faulty variants of compute.  This one has no case for a full accumulator.
Writer_compute_no_mark(self0) ==
  LET self == [self0 EXCEPT !.probe = <<>>]
      data_bits_len == u64_wrapping_mul(self.data_bytes_len, 8)
  IN
  IF self.buf_seed <= CHUNK_BYTE_SIZE - (END_OF_DATA_BYTE_SIZE + DATA_BITS_LENGTH_BYTE_SIZE)
    THEN
      LET pading_bytes_len == CHUNK_BYTE_SIZE - DATA_BITS_LENGTH_BYTE_SIZE - self.buf_seed
          padded == [self EXCEPT !.buf =
                       clone_from_slice(@, self.buf_seed, slice(PADDING, 0, pading_bytes_len))]
      IN  Writer_compress(Writer_fill_data_len(padded, data_bits_len))
    ELSE
      LET pading_bytes_len == CHUNK_BYTE_SIZE - self.buf_seed
          chunk1 == Writer_compress(
                      [self EXCEPT !.buf =
                         clone_from_slice(@, self.buf_seed,
                                          slice(PADDING, 0, pading_bytes_len))])
          zeroed == [chunk1 EXCEPT !.buf =
                       clone_from_slice(@, 0,
                          slice(PADDING, DATA_BITS_LENGTH_BYTE_SIZE, CHUNK_BYTE_SIZE))]
      IN  Writer_compress(Writer_fill_data_len(zeroed, data_bits_len))

\* This one writes the terminator only, and leaves what the accumulator held
\* between it and the length field.
Writer_compute_short_pad(self0) ==
  LET self == [self0 EXCEPT !.probe = <<>>]
      data_bits_len == u64_wrapping_mul(self.data_bytes_len, 8)
  IN
  IF self.buf_seed <= CHUNK_BYTE_SIZE - (END_OF_DATA_BYTE_SIZE + DATA_BITS_LENGTH_BYTE_SIZE)
    THEN
      LET padded == [self EXCEPT !.buf =
                       clone_from_slice(@, self.buf_seed,
                                        slice(PADDING, 0, END_OF_DATA_BYTE_SIZE))]
      IN  Writer_compress(Writer_fill_data_len(padded, data_bits_len))
    ELSE
      LET pading_bytes_len == CHUNK_BYTE_SIZE - self.buf_seed
          chunk1 == Writer_compress(
                      [self EXCEPT !.buf =
                         clone_from_slice(@, self.buf_seed,
                                          slice(PADDING, 0, pading_bytes_len))])
          zeroed == [chunk1 EXCEPT !.buf =
                       clone_from_slice(@, 0,
                          slice(PADDING, DATA_BITS_LENGTH_BYTE_SIZE, CHUNK_BYTE_SIZE))]
          marked == IF pading_bytes_len = 0
                      THEN [zeroed EXCEPT !.buf[1] = PADDING[1]]
                      ELSE zeroed
      IN  Writer_compress(Writer_fill_data_len(marked, data_bits_len))

\* This one has the single-block layout only: above offset 56 the
\* subtraction CHUNK_BYTE_SIZE - DATA_BITS_LENGTH_BYTE_SIZE - buf_seed
\* underflows, and at offset 56 the terminator overwrites the length field.
Writer_compute_one_block(self0) ==
  LET self == [self0 EXCEPT !.probe = <<>>]
      data_bits_len == u64_wrapping_mul(self.data_bytes_len, 8)
      pading_bytes_len == CHUNK_BYTE_SIZE - DATA_BITS_LENGTH_BYTE_SIZE - self.buf_seed
  IN  IF pading_bytes_len < 0
        THEN [self EXCEPT !.panicked = TRUE]
        ELSE Writer_compress(
               Writer_fill_data_len(
                 [self EXCEPT !.buf =
                    clone_from_slice(@, self.buf_seed, slice(PADDING, 0, pading_bytes_len))],
                 data_bits_len))

\* compute; the digest is Ctx_get_digest of the hasher of the result
Writer_compute(self0) ==
  LET self == [self0 EXCEPT !.probe = <<>>]
      data_bits_len == u64_wrapping_mul(self.data_bytes_len, 8)
  IN
  IF self.buf_seed <= CHUNK_BYTE_SIZE - (END_OF_DATA_BYTE_SIZE + DATA_BITS_LENGTH_BYTE_SIZE)
    THEN
      LET pading_bytes_len == CHUNK_BYTE_SIZE - DATA_BITS_LENGTH_BYTE_SIZE - self.buf_seed
          padded == [self EXCEPT !.buf =
                       clone_from_slice(@, self.buf_seed, slice(PADDING, 0, pading_bytes_len))]
      IN  Writer_compress(Writer_fill_data_len(padded, data_bits_len))
    ELSE
      LET pading_bytes_len == CHUNK_BYTE_SIZE - self.buf_seed
      IN
      IF pading_bytes_len < 0
        THEN [self EXCEPT !.panicked = TRUE]
        ELSE
          LET chunk1 == Writer_compress(
                          [self EXCEPT !.buf =
                             clone_from_slice(@, self.buf_seed,
                                              slice(PADDING, 0, pading_bytes_len))])
              zeroed == [chunk1 EXCEPT !.buf =
                           clone_from_slice(@, 0,
                              slice(PADDING, DATA_BITS_LENGTH_BYTE_SIZE, CHUNK_BYTE_SIZE))]
              marked == IF pading_bytes_len = 0
                          THEN [zeroed EXCEPT !.buf[1] = PADDING[1]]
                          ELSE zeroed
          IN  Writer_compress(Writer_fill_data_len(marked, data_bits_len))

\* md5() and sha256(): the engines the two hash functions are computed with
hash_md5_writer == Writer_new(Ctx_new, "Little")
hash_sha256_writer == Writer_new(Ctx_new, "Big")
Func == {"MD5", "SHA256"}

(***************************************************************************)
(* md5.rs: the standalone md5::Context.  eaten is not a field of the code: *)
(* it is the sequence of blocks eat_chunk has been run on (probe, panicked *)
(* and elided are as for the Writer).  The state words of a Context that   *)
(* has elided blocks are the outcome of more rounds than can be computed   *)
(* here: they are Undetermined, they stay so through eat_chunk, and so is  *)
(* the digest made of them.                                                *)
(***************************************************************************)
Undetermined == "undetermined"

Context_new ==
  [buf |-> [i \in 1..CHUNK_BYTE_SIZE |-> 0],
   buf_seed |-> 0,
   data_bytes_len |-> U64_ZERO,
   a_s |-> A0,
   b_s |-> B0,
   c_s |-> C0,
   d_s |-> D0,
   eaten |-> <<>>,
   elided |-> NoDigits,
   probe |-> <<>>,
   panicked |-> FALSE]

eat_chunk(self) ==
  IF self.elided # NoDigits
    THEN [self EXCEPT !.eaten = Append(@, self.buf),
                      !.probe = Append(@, self.data_bytes_len)]
  ELSE
  LET words == split_words(self.buf)
      t == md5_rounds([i |-> 0, a |-> self.a_s, b |-> self.b_s,
                       c |-> self.c_s, d |-> self.d_s], words)
  IN  [self EXCEPT !.a_s = u32_wrapping_add(self.a_s, t.a),
                   !.b_s = u32_wrapping_add(self.b_s, t.b),
                   !.c_s = u32_wrapping_add(self.c_s, t.c),
                   !.d_s = u32_wrapping_add(self.d_s, t.d),
                   !.eaten = Append(@, self.buf),
                   !.probe = Append(@, self.data_bytes_len)]

\* Digest::from_state
from_state(a_s, b_s, c_s, d_s) ==
  as_u8_le(a_s) \o as_u8_le(b_s) \o as_u8_le(c_s) \o as_u8_le(d_s)

\* a faulty variant of fill_data_len: only the low byte of the length is
\* written, the other seven are left zero
Context_fill_data_len_byte(self, bits_len) ==
  [self EXCEPT !.buf =
     [i \in 1..CHUNK_BYTE_SIZE |->
        IF i <= CHUNK_BYTE_SIZE - 8 THEN self.buf[i]
        ELSE IF i = CHUNK_BYTE_SIZE - 8 + 1 THEN u64_byte(bits_len, 0)
        ELSE 0]]

\* fill_data_len of md5::Context: always little-endian
Context_fill_data_len(self, bits_len) ==
  [self EXCEPT !.buf =
     [i \in 1..CHUNK_BYTE_SIZE |->
        IF i <= CHUNK_BYTE_SIZE - 8 THEN self.buf[i]
        ELSE u64_byte(bits_len, i - 1 - (CHUNK_BYTE_SIZE - 8))]]

\* This one eats the accumulator as soon as it is full.
RECURSIVE Context_consume_loop_eager(_, _)
Context_consume_loop_eager(self, data) ==
  IF self.buf_seed + Len(data) >= CHUNK_BYTE_SIZE
    THEN LET copied == [self EXCEPT !.buf =
                          clone_from_slice(@, self.buf_seed,
                             slice(data, 0, CHUNK_BYTE_SIZE - self.buf_seed))]
             eaten == eat_chunk(copied)
         IN  Context_consume_loop_eager(
               [eaten EXCEPT !.buf_seed = 0],
               slice(data, CHUNK_BYTE_SIZE - self.buf_seed, Len(data)))
    ELSE [self EXCEPT !.buf = clone_from_slice(@, self.buf_seed, data),
                      !.buf_seed = @ + Len(data)]

\* the while loop of consume and the two statements after it
RECURSIVE Context_consume_loop(_, _)
Context_consume_loop(self, data) ==
  IF self.buf_seed + Len(data) > CHUNK_BYTE_SIZE
    THEN IF ~clone_ok(self.buf_seed, CHUNK_BYTE_SIZE, CHUNK_BYTE_SIZE,
                      CHUNK_BYTE_SIZE - self.buf_seed)
              \/ ~slice_ok(0, CHUNK_BYTE_SIZE - self.buf_seed, Len(data))
           THEN [self EXCEPT !.panicked = TRUE]
           ELSE LET copied == [self EXCEPT !.buf =
                                 clone_from_slice(@, self.buf_seed,
                                    slice(data, 0, CHUNK_BYTE_SIZE - self.buf_seed))]
                    eaten == eat_chunk(copied)
                IN  Context_consume_loop(
                      [eaten EXCEPT !.buf_seed = 0],
                      slice(data, CHUNK_BYTE_SIZE - self.buf_seed, Len(data)))
    ELSE IF ~clone_ok(self.buf_seed, self.buf_seed + Len(data), CHUNK_BYTE_SIZE, Len(data))
           THEN [self EXCEPT !.panicked = TRUE]
           ELSE [self EXCEPT !.buf = clone_from_slice(@, self.buf_seed, data),
                             !.buf_seed = @ + Len(data)]

Context_consume(self, data) ==
  Context_consume_loop(
    [self EXCEPT !.data_bytes_len = usize_wrapping_add(@, Len(data)),
                 !.probe = <<>>],
    data)

\* impl Write for Context: write
Context_write(self, buf) ==
  LET after == Context_consume(self, buf)
  IN  [self |-> after, ret |-> IF after.panicked THEN Panic ELSE Ok(Len(buf))]

\* A faulty variant of consume_final: an accumulator holding 55 bytes is taken
\* to have no room for the terminator and the length.
consume_final_early_split(self0) ==
  LET self == [self0 EXCEPT !.probe = <<>>]
      data_bits_len == u64_wrapping_mul(self.data_bytes_len, 8)
  IN
  IF self.buf_seed < CHUNK_BYTE_SIZE - (END_OF_DATA_BYTE_SIZE + DATA_BITS_LENGTH_BYTE_SIZE)
    THEN
      LET pading_bytes_len == CHUNK_BYTE_SIZE - DATA_BITS_LENGTH_BYTE_SIZE - self.buf_seed
          padded == [self EXCEPT !.buf =
                       clone_from_slice(@, self.buf_seed, slice(PADDING, 0, pading_bytes_len))]
      IN  eat_chunk(Context_fill_data_len(padded, data_bits_len))
    ELSE
      LET pading_bytes_len == CHUNK_BYTE_SIZE - self.buf_seed
          chunk1 == eat_chunk(
                      [self EXCEPT !.buf =
                         clone_from_slice(@, self.buf_seed,
                                          slice(PADDING, 0, pading_bytes_len))])
          zeroed == [chunk1 EXCEPT !.buf =
                       clone_from_slice(@, 0,
                          slice(PADDING, DATA_BITS_LENGTH_BYTE_SIZE, CHUNK_BYTE_SIZE))]
          marked == IF pading_bytes_len = 0
                      THEN [zeroed EXCEPT !.buf[1] = PADDING[1]]
                      ELSE zeroed
      IN  eat_chunk(Context_fill_data_len(marked, data_bits_len))

\* A faulty variant of consume_final: the second final block is not cleared
\* before the length is written into it.
consume_final_stale(self0) ==
  LET self == [self0 EXCEPT !.probe = <<>>]
      data_bits_len == u64_wrapping_mul(self.data_bytes_len, 8)
  IN
  IF self.buf_seed <= CHUNK_BYTE_SIZE - (END_OF_DATA_BYTE_SIZE + DATA_BITS_LENGTH_BYTE_SIZE)
    THEN
      LET pading_bytes_len == CHUNK_BYTE_SIZE - DATA_BITS_LENGTH_BYTE_SIZE - self.buf_seed
          padded == [self EXCEPT !.buf =
                       clone_from_slice(@, self.buf_seed, slice(PADDING, 0, pading_bytes_len))]
      IN  eat_chunk(Context_fill_data_len(padded, data_bits_len))
    ELSE
      LET pading_bytes_len == CHUNK_BYTE_SIZE - self.buf_seed
          chunk1 == eat_chunk(
                      [self EXCEPT !.buf =
                         clone_from_slice(@, self.buf_seed,
                                          slice(PADDING, 0, pading_bytes_len))])
          marked == IF pading_bytes_len = 0
                      THEN [chunk1 EXCEPT !.buf[1] = PADDING[1]]
                      ELSE chunk1
      IN  eat_chunk(Context_fill_data_len(marked, data_bits_len))

\* a faulty variant of consume_final: when the accumulator is full the second
\* block is left without the 0x80 terminator
consume_final_unmarked(self0) ==
  LET self == [self0 EXCEPT !.probe = <<>>]
      data_bits_len == u64_wrapping_mul(self.data_bytes_len, 8)
  IN
  IF self.buf_seed <= CHUNK_BYTE_SIZE - (END_OF_DATA_BYTE_SIZE + DATA_BITS_LENGTH_BYTE_SIZE)
    THEN
      LET pading_bytes_len == CHUNK_BYTE_SIZE - DATA_BITS_LENGTH_BYTE_SIZE - self.buf_seed
          padded == [self EXCEPT !.buf =
                       clone_from_slice(@, self.buf_seed, slice(PADDING, 0, pading_bytes_len))]
      IN  eat_chunk(Context_fill_data_len(padded, data_bits_len))
    ELSE
      LET pading_bytes_len == CHUNK_BYTE_SIZE - self.buf_seed
          chunk1 == eat_chunk(
                      [self EXCEPT !.buf =
                         clone_from_slice(@, self.buf_seed,
                                          slice(PADDING, 0, pading_bytes_len))])
          zeroed == [chunk1 EXCEPT !.buf =
                       clone_from_slice(@, 0,
                          slice(PADDING, DATA_BITS_LENGTH_BYTE_SIZE, CHUNK_BYTE_SIZE))]
      IN  eat_chunk(Context_fill_data_len(zeroed, data_bits_len))

\* consume_final; the state it returns is the a_s .. d_s of the result
consume_final(self0) ==
  LET self == [self0 EXCEPT !.probe = <<>>]
      data_bits_len == u64_wrapping_mul(self.data_bytes_len, 8)
  IN
  IF self.buf_seed <= CHUNK_BYTE_SIZE - (END_OF_DATA_BYTE_SIZE + DATA_BITS_LENGTH_BYTE_SIZE)
    THEN
      LET pading_bytes_len == CHUNK_BYTE_SIZE - DATA_BITS_LENGTH_BYTE_SIZE - self.buf_seed
          padded == [self EXCEPT !.buf =
                       clone_from_slice(@, self.buf_seed, slice(PADDING, 0, pading_bytes_len))]
      IN  eat_chunk(Context_fill_data_len(padded, data_bits_len))
    ELSE
      LET pading_bytes_len == CHUNK_BYTE_SIZE - self.buf_seed
      IN
      IF pading_bytes_len < 0
        THEN [self EXCEPT !.panicked = TRUE]
        ELSE
          LET chunk1 == eat_chunk(
                          [self EXCEPT !.buf =
                             clone_from_slice(@, self.buf_seed,
                                              slice(PADDING, 0, pading_bytes_len))])
              zeroed == [chunk1 EXCEPT !.buf =
                           clone_from_slice(@, 0,
                              slice(PADDING, DATA_BITS_LENGTH_BYTE_SIZE, CHUNK_BYTE_SIZE))]
              marked == IF pading_bytes_len = 0
                          THEN [zeroed EXCEPT !.buf[1] = PADDING[1]]
                          ELSE zeroed
          IN  eat_chunk(Context_fill_data_len(marked, data_bits_len))

\* Context::compute: the digest bytes
Context_compute(self) ==
  LET state == consume_final(self)
  IN  [self |-> state,
       digest |-> IF state.elided # NoDigits THEN Undetermined
                  ELSE from_state(state.a_s, state.b_s, state.c_s, state.d_s)]

(***************************************************************************)
(* sha256.rs and helper.rs: the SHA-256 compression function, the Context  *)
(* the Writer built by sha256() drives.  The state is the sequence of its  *)
(* eight words.                                                            *)
(***************************************************************************)
\* a faulty variant of right_rotate: the bits shifted out are lost
right_rotate_shift(x, s) == u32_shr(x, s)

\* helper.rs
right_rotate(x, s) == u32_or(u32_shr(x, s), u32_shl(x, 32 - s))

as_u32_be(bytes) ==
  u32_wrapping_add(
    u32_wrapping_add(
      u32_wrapping_add(u32_from_byte(bytes[1], 3), u32_from_byte(bytes[2], 2)),
      u32_from_byte(bytes[3], 1)),
    u32_from_byte(bytes[4], 0))

as_u8_be(x) == <<u32_byte(x, 3), u32_byte(x, 2), u32_byte(x, 1), u32_byte(x, 0)>>

\* sha256.rs: K
sha256_K ==
  <<W(\h428a, \h2f98), W(\h7137, \h4491), W(\hb5c0, \hfbcf), W(\he9b5, \hdba5),
    W(\h3956, \hc25b), W(\h59f1, \h11f1), W(\h923f, \h82a4), W(\hab1c, \h5ed5),
    W(\hd807, \haa98), W(\h1283, \h5b01), W(\h2431, \h85be), W(\h550c, \h7dc3),
    W(\h72be, \h5d74), W(\h80de, \hb1fe), W(\h9bdc, \h06a7), W(\hc19b, \hf174),
    W(\he49b, \h69c1), W(\hefbe, \h4786), W(\h0fc1, \h9dc6), W(\h240c, \ha1cc),
    W(\h2de9, \h2c6f), W(\h4a74, \h84aa), W(\h5cb0, \ha9dc), W(\h76f9, \h88da),
    W(\h983e, \h5152), W(\ha831, \hc66d), W(\hb003, \h27c8), W(\hbf59, \h7fc7),
    W(\hc6e0, \h0bf3), W(\hd5a7, \h9147), W(\h06ca, \h6351), W(\h1429, \h2967),
    W(\h27b7, \h0a85), W(\h2e1b, \h2138), W(\h4d2c, \h6dfc), W(\h5338, \h0d13),
    W(\h650a, \h7354), W(\h766a, \h0abb), W(\h81c2, \hc92e), W(\h9272, \h2c85),
    W(\ha2bf, \he8a1), W(\ha81a, \h664b), W(\hc24b, \h8b70), W(\hc76c, \h51a3),
    W(\hd192, \he819), W(\hd699, \h0624), W(\hf40e, \h3585), W(\h106a, \ha070),
    W(\h19a4, \hc116), W(\h1e37, \h6c08), W(\h2748, \h774c), W(\h34b0, \hbcb5),
    W(\h391c, \h0cb3), W(\h4ed8, \haa4a), W(\h5b9c, \hca4f), W(\h682e, \h6ff3),
    W(\h748f, \h82ee), W(\h78a5, \h636f), W(\h84c8, \h7814), W(\h8cc7, \h0208),
    W(\h90be, \hfffa), W(\ha450, \h6ceb), W(\hbef9, \ha3f7), W(\hc671, \h78f2)>>

\* Context::new
sha256_Context_new ==
  <<W(\h6a09, \he667), W(\hbb67, \hae85), W(\h3c6e, \hf372), W(\ha54f, \hf53a),
    W(\h510e, \h527f), W(\h9b05, \h688c), W(\h1f83, \hd9ab), W(\h5be0, \hcd19)>>

\* one iteration of the second loop of get_words; t holds the loop counter i
\* and the words computed so far
get_words_step(t) ==
  LET w15 == t.words[t.i - 15 + 1]
      w2 == t.words[t.i - 2 + 1]
      s0 == u32_xor(u32_xor(right_rotate(w15, 7), right_rotate(w15, 18)), u32_shr(w15, 3))
      s1 == u32_xor(u32_xor(right_rotate(w2, 17), right_rotate(w2, 19)), u32_shr(w2, 10))
  IN  [i |-> t.i + 1,
       words |-> Append(t.words,
                   u32_wrapping_add(t.words[t.i - 16 + 1],
                     u32_wrapping_add(u32_wrapping_add(s0, t.words[t.i - 7 + 1]), s1)))]

\* for i in 16..64
RECURSIVE get_words_loop(_)
get_words_loop(t) == IF t.i >= 64 THEN t ELSE get_words_loop(get_words_step(t))

get_words(chunk) ==
  get_words_loop(
    [i |-> 16,
     words |-> <<as_u32_be(slice(chunk, 0, 4)), as_u32_be(slice(chunk, 4, 8)),
                 as_u32_be(slice(chunk, 8, 12)), as_u32_be(slice(chunk, 12, 16)),
                 as_u32_be(slice(chunk, 16, 20)), as_u32_be(slice(chunk, 20, 24)),
                 as_u32_be(slice(chunk, 24, 28)), as_u32_be(slice(chunk, 28, 32)),
                 as_u32_be(slice(chunk, 32, 36)), as_u32_be(slice(chunk, 36, 40)),
                 as_u32_be(slice(chunk, 40, 44)), as_u32_be(slice(chunk, 44, 48)),
                 as_u32_be(slice(chunk, 48, 52)), as_u32_be(slice(chunk, 52, 56)),
                 as_u32_be(slice(chunk, 56, 60)), as_u32_be(slice(chunk, 60, 64))>>]).words

\* one iteration of the loop of compress; t holds the loop counter i and
\* the working variables a .. h
sha256_round(t, words) ==
  LET s1 == u32_xor(u32_xor(right_rotate(t.e, 6), right_rotate(t.e, 11)), right_rotate(t.e, 25))
      ch == u32_xor(u32_and(t.e, t.f), u32_and(u32_not(t.e), t.g))
      temp1 == u32_wrapping_add(t.h,
                 u32_wrapping_add(
                   u32_wrapping_add(u32_wrapping_add(s1, ch), sha256_K[t.i + 1]),
                   words[t.i + 1]))
      s0 == u32_xor(u32_xor(right_rotate(t.a, 2), right_rotate(t.a, 13)), right_rotate(t.a, 22))
      maj == u32_xor(u32_xor(u32_and(t.a, t.b), u32_and(t.a, t.c)), u32_and(t.b, t.c))
      temp2 == u32_wrapping_add(s0, maj)
  IN  [i |-> t.i + 1,
       a |-> u32_wrapping_add(temp1, temp2),
       b |-> t.a,
       c |-> t.b,
       d |-> t.c,
       e |-> u32_wrapping_add(t.d, temp1),
       f |-> t.e,
       g |-> t.f,
       h |-> t.g]

\* for i in 0..64
RECURSIVE sha256_rounds(_, _)
sha256_rounds(t, words) ==
  IF t.i >= 64 THEN t ELSE sha256_rounds(sha256_round(t, words), words)

\* impl hasher::Context for Context: compress
sha256_compress(state, chunk) ==
  LET t == sha256_rounds(
             [i |-> 0, a |-> state[1], b |-> state[2], c |-> state[3], d |-> state[4],
              e |-> state[5], f |-> state[6], g |-> state[7], h |-> state[8]],
             get_words(chunk))
  IN  <<u32_wrapping_add(t.a, state[1]), u32_wrapping_add(t.b, state[2]),
        u32_wrapping_add(t.c, state[3]), u32_wrapping_add(t.d, state[4]),
        u32_wrapping_add(t.e, state[5]), u32_wrapping_add(t.f, state[6]),
        u32_wrapping_add(t.g, state[7]), u32_wrapping_add(t.h, state[8])>>

\* impl hasher::Context for Context: get_digest
sha256_get_digest(state) ==
  as_u8_be(state[1]) \o as_u8_be(state[2]) \o as_u8_be(state[3]) \o as_u8_be(state[4])
    \o as_u8_be(state[5]) \o as_u8_be(state[6]) \o as_u8_be(state[7]) \o as_u8_be(state[8])

\* the state of a Context after compress has been called with each of the
\* chunks in turn
RECURSIVE sha256_compress_all(_, _)
sha256_compress_all(state, chunks) ==
  IF chunks = <<>> THEN state
  ELSE sha256_compress_all(sha256_compress(state, Head(chunks)), Tail(chunks))

(***************************************************************************)
(* Digests as text.  A str is the sequence of the bytes of its UTF-8       *)
(* encoding, and its len() is the number of those bytes.  A call returns   *)
(* TOk(value) or TErr(error), or does not return because it panicked       *)
(* (TPanic).                                                               *)
(***************************************************************************)
TOk(v) == [res |-> "Ok", val |-> v]
TErr(e) == [res |-> "Err", val |-> e]
TPanic == [res |-> "Panic", val |-> <<>>]

\* core::fmt: the digit of d < 16 in format!("{:x}")
fmt_digit(d) == IF d < 10 THEN 48 + d ELSE 97 + (d - 10)
\* format!("{:x}", byte): lowercase hexadecimal without leading zeros
fmt_x(byte) ==
  IF byte < 16 THEN <<fmt_digit(byte)>>
  ELSE <<fmt_digit(byte \div 16), fmt_digit(byte % 16)>>
\* format!("{:0>2x}", byte): right-aligned in 2 columns, filled with '0'
fmt_02x(byte) ==
  LET digits == fmt_x(byte)
  IN  IF Len(digits) >= 2 THEN digits ELSE [i \in 1..(2 - Len(digits)) |-> 48] \o digits

\* a faulty variant of Display: format!("{:x}", byte) for each byte
RECURSIVE md5_Digest_fmt_unpadded(_)
md5_Digest_fmt_unpadded(self) ==
  IF self = <<>> THEN <<>> ELSE fmt_x(Head(self)) \o md5_Digest_fmt_unpadded(Tail(self))

\* impl fmt::Display for md5::Digest: for byte in self.0.iter()
RECURSIVE md5_Digest_fmt(_)
md5_Digest_fmt(self) ==
  IF self = <<>> THEN <<>> ELSE fmt_02x(Head(self)) \o md5_Digest_fmt(Tail(self))

\* impl fmt::Display for sha256::Digest
RECURSIVE sha256_Digest_fmt(_)
sha256_Digest_fmt(self) ==
  IF self = <<>> THEN <<>> ELSE fmt_02x(Head(self)) \o sha256_Digest_fmt(Tail(self))

\* char::to_digit(radix) of the byte c, or -1 when c is no digit of the radix
to_digit(c, radix) ==
  LET v == IF c \in 48..57 THEN c - 48
           ELSE IF c \in 97..122 THEN c - 97 + 10
           ELSE IF c \in 65..90 THEN c - 65 + 10
           ELSE -1
  IN  IF v < radix THEN v ELSE -1

\* the digits of u8::from_str_radix, most significant first; acc is the value
\* of the digits read so far
RECURSIVE from_str_radix_digits(_, _, _)
from_str_radix_digits(digits, radix, acc) ==
  IF digits = <<>> THEN TOk(acc)
  ELSE IF to_digit(Head(digits), radix) < 0 THEN TErr("InvalidDigit")
  ELSE IF acc * radix + to_digit(Head(digits), radix) > 255 THEN TErr("PosOverflow")
  ELSE from_str_radix_digits(Tail(digits), radix, acc * radix + to_digit(Head(digits), radix))

\* a faulty variant of u8::from_str_radix: the radix is taken to be 10
from_str_radix_decimal(src, radix) ==
  IF src = <<>> THEN TErr("Empty")
  ELSE IF Len(src) = 1 /\ src[1] \in {43, 45} THEN TErr("InvalidDigit")
  ELSE from_str_radix_digits(IF src[1] = 43 THEN Tail(src) ELSE src, 10, 0)

\* u8::from_str_radix(src, radix): an optional '+' and then digits; a '-' is
\* no digit of an unsigned type
from_str_radix(src, radix) ==
  IF src = <<>> THEN TErr("Empty")
  ELSE IF Len(src) = 1 /\ src[1] \in {43, 45} THEN TErr("InvalidDigit")
  ELSE from_str_radix_digits(IF src[1] = 43 THEN Tail(src) ELSE src, radix, 0)

\* str::is_char_boundary(k): the start, the end, or a byte that is not a
\* UTF-8 continuation byte
is_char_boundary(s, k) ==
  \/ k = 0
  \/ k = Len(s)
  \/ k < Len(s) /\ s[k + 1] \notin 128..191
\* &s[a..b] does not panic
str_slice_ok(s, a, b) ==
  a <= b /\ b <= Len(s) /\ is_char_boundary(s, a) /\ is_char_boundary(s, b)

\* md5.rs: pub struct Digest([u8; 16]); sha256.rs: DIGEST_BYTE_SIZE
md5_DIGEST_BYTE_SIZE == 16
DIGEST_WORD_SIZE == 8
BYTES_IN_WORD == 4
sha256_DIGEST_BYTE_SIZE == DIGEST_WORD_SIZE * BYTES_IN_WORD
\* libs/hash/md5.rs and libs/hash/sha256.rs: the length of a digest as text
md5_DIGEST_STR_LEN == 2 * md5_DIGEST_BYTE_SIZE
sha256_DIGEST_STR_LEN == 2 * sha256_DIGEST_BYTE_SIZE

\* ParseDigestError
InvalidStrLen(expected, actual) ==
  [e |-> "InvalidStrLen", expected |-> expected, actual |-> actual]
ParseByte(err) == [e |-> "ParseByte", source |-> err]

\* for (i, x) in digest.iter_mut().enumerate() { *x = u8::from_str_radix(..)? }
\* from element i on; digest holds the elements already set
RECURSIVE parse_digest_loop(_, _, _, _)
parse_digest_loop(s, i, size, digest) ==
  IF i >= size THEN TOk(digest)
  ELSE IF ~str_slice_ok(s, 2 * i, 2 * i + 2) THEN TPanic
  ELSE LET x == from_str_radix(slice(s, 2 * i, 2 * i + 2), 16)
       IN  IF x.res = "Err" THEN TErr(ParseByte(x.val))
           ELSE parse_digest_loop(s, i + 1, size, Append(digest, x.val))

\* a faulty variant of parse_digest_md5: only too short a string is refused
parse_digest_md5_min_len(s) ==
  IF Len(s) < md5_DIGEST_STR_LEN
    THEN TErr(InvalidStrLen(md5_DIGEST_STR_LEN, Len(s)))
    ELSE parse_digest_loop(s, 0, md5_DIGEST_BYTE_SIZE, <<>>)

\* hash/check.rs
parse_digest_md5(s) ==
  IF Len(s) # md5_DIGEST_STR_LEN
    THEN TErr(InvalidStrLen(md5_DIGEST_STR_LEN, Len(s)))
    ELSE parse_digest_loop(s, 0, md5_DIGEST_BYTE_SIZE, <<>>)

parse_digest_sha256(s) ==
  IF Len(s) # sha256_DIGEST_STR_LEN
    THEN TErr(InvalidStrLen(sha256_DIGEST_STR_LEN, Len(s)))
    ELSE parse_digest_loop(s, 0, sha256_DIGEST_BYTE_SIZE, <<>>)

\* .for_each(|(i, x)| *x = u8::from_str_radix(&s[2 * i..2 * i + 2], 16).unwrap())
RECURSIVE from_str_loop(_, _, _, _)
from_str_loop(s, i, size, digest) ==
  IF i >= size THEN TOk(digest)
  ELSE IF ~str_slice_ok(s, 2 * i, 2 * i + 2) THEN TPanic
  ELSE LET x == from_str_radix(slice(s, 2 * i, 2 * i + 2), 16)
       IN  IF x.res = "Err" THEN TPanic
           ELSE from_str_loop(s, i + 1, size, Append(digest, x.val))

\* md5::Digest::from_str and sha256::Digest::from_str
md5_Digest_from_str(s) == from_str_loop(s, 0, md5_DIGEST_BYTE_SIZE, <<>>)
sha256_Digest_from_str(s) == from_str_loop(s, 0, sha256_DIGEST_BYTE_SIZE, <<>>)

(***************************************************************************)
(* Lines of a checksum file.  The four patterns are matched as the regex   *)
(* crate matches them: ^ and $ are the ends of the line, the classes are   *)
(* ASCII, '.' is any character but "\n", repetitions are greedy.  A match  *)
(* gives the two capture groups.                                           *)
(***************************************************************************)
NoMatch == [matched |-> FALSE, g1 |-> <<>>, g2 |-> <<>>]
Captures(g1, g2) == [matched |-> TRUE, g1 |-> g1, g2 |-> g2]

\* [[:alpha:]|0-9]: a letter, '|' or a digit
is_alpha_bar_digit(c) == c \in (65..90) \cup (97..122) \cup {124} \cup (48..57)
\* [[:space:]]: tab, newline, vertical tab, form feed, carriage return, space
is_space(c) == c \in {9, 10, 11, 12, 13, 32}
\* (.+): one character or more, none of them "\n"
is_path(s) == Len(s) >= 1 /\ \A j \in 1..Len(s) : s[j] # 10

\* the number of [[:space:]] characters from position from on
RECURSIVE space_run(_, _)
space_run(line, from) ==
  IF from <= Len(line) /\ is_space(line[from]) THEN 1 + space_run(line, from + 1) ELSE 0
\* the number of [[:space:]] characters from position from backwards
RECURSIVE space_run_back(_, _)
space_run_back(line, from) ==
  IF from >= 1 /\ is_space(line[from]) THEN 1 + space_run_back(line, from - 1) ELSE 0

\* ^([[:alpha:]|0-9]{n})[[:space:]]+(.+)$ : the spaces are taken greedily,
\* and one is given back when nothing is left for the path
GNU_STYLE_RE(n, line) ==
  IF ~(/\ Len(line) >= n + 2
       /\ \A j \in 1..n : is_alpha_bar_digit(line[j])
       /\ is_space(line[n + 1]))
    THEN NoMatch
    ELSE LET m == space_run(line, n + 1)
             path == IF n + m < Len(line)
                       THEN SubSeq(line, n + m + 1, Len(line))
                       ELSE <<line[Len(line)]>>
         IN  IF is_path(path) THEN Captures(SubSeq(line, 1, n), path) ELSE NoMatch

\* ^NAME \((.+)\)[[:space:]]*={1}[[:space:]]*([[:alpha:]|0-9]{n})$ : read
\* from the end, the digest, spaces, '=', spaces, ')' and before it the path
BSD_STYLE_RE(name, n, line) ==
  LET prefix == name \o <<32, 40>>
      eq == Len(line) - n - space_run_back(line, Len(line) - n)
      close == eq - 1 - space_run_back(line, eq - 1)
  IN  IF /\ Len(line) >= Len(prefix) + 3 + n
         /\ SubSeq(line, 1, Len(prefix)) = prefix
         /\ \A j \in (Len(line) - n + 1)..Len(line) : is_alpha_bar_digit(line[j])
         /\ eq > Len(prefix) /\ line[eq] = 61
         /\ close > Len(prefix) /\ line[close] = 41
         /\ is_path(SubSeq(line, Len(prefix) + 1, close - 1))
        THEN Captures(SubSeq(line, Len(prefix) + 1, close - 1),
                      SubSeq(line, Len(line) - n + 1, Len(line)))
        ELSE NoMatch

\* "MD5" and "SHA256"
NameMd5 == <<77, 68, 53>>
NameSha256 == <<83, 72, 65, 50, 53, 54>>

SHA256_GNU_STYLE_RE(line) == GNU_STYLE_RE(64, line)
SHA256_BSD_STYLE_RE(line) == BSD_STYLE_RE(NameSha256, 64, line)
MD5_GNU_STYLE_RE(line) == GNU_STYLE_RE(32, line)
MD5_BSD_STYLE_RE(line) == BSD_STYLE_RE(NameMd5, 32, line)

\* hash::Digest::MD5(..) and hash::Digest::SHA256(..)
Digest_MD5(bytes) == [variant |-> "MD5", bytes |-> bytes]
Digest_SHA256(bytes) == [variant |-> "SHA256", bytes |-> bytes]

\* ParseChecksumLineError
UnrecognizeLine == [e |-> "UnrecognizeLine"]
ParseDigest(err) == [e |-> "ParseDigest", source |-> err]

\* hash/check.rs: parse_digest(s, hf)
parse_digest(s, hf) ==
  LET d == IF hf = "MD5" THEN parse_digest_md5(s) ELSE parse_digest_sha256(s)
  IN  IF d.res # "Ok" THEN d
      ELSE TOk(IF hf = "MD5" THEN Digest_MD5(d.val) ELSE Digest_SHA256(d.val))

\* the (path, expected_digest, hf) a branch of parse_checksum_line selects
Selected(path, expected_digest, hf) ==
  [path |-> path, expected_digest |-> expected_digest, hf |-> hf]

\* parse_checksum_line: let expected_digest = parse_digest(expected_digest, hf)?
parse_checksum_line_digest(sel) ==
  LET expected_digest == parse_digest(sel.expected_digest, sel.hf)
  IN  IF expected_digest.res = "Panic" THEN TPanic
      ELSE IF expected_digest.res = "Err" THEN TErr(ParseDigest(expected_digest.val))
      ELSE TOk([path |-> sel.path, digest |-> expected_digest.val])

\* hash/check.rs: parse_checksum_line, its four branches in their order
parse_checksum_line(line) ==
  IF SHA256_GNU_STYLE_RE(line).matched
    THEN parse_checksum_line_digest(
           Selected(SHA256_GNU_STYLE_RE(line).g2, SHA256_GNU_STYLE_RE(line).g1, "SHA256"))
  ELSE IF SHA256_BSD_STYLE_RE(line).matched
    THEN parse_checksum_line_digest(
           Selected(SHA256_BSD_STYLE_RE(line).g1, SHA256_BSD_STYLE_RE(line).g2, "SHA256"))
  ELSE IF MD5_GNU_STYLE_RE(line).matched
    THEN parse_checksum_line_digest(
           Selected(MD5_GNU_STYLE_RE(line).g2, MD5_GNU_STYLE_RE(line).g1, "SHA256"))
  ELSE IF MD5_GNU_STYLE_RE(line).matched
    THEN parse_checksum_line_digest(
           Selected(MD5_GNU_STYLE_RE(line).g1, MD5_GNU_STYLE_RE(line).g2, "SHA256"))
  ELSE TErr(UnrecognizeLine)

\* hash.rs: Digest::from_str(caps.get(k).unwrap().as_str())? and Ok((filename, ..))
checksum_line_digest(path, expected_digest, variant) ==
  IF expected_digest.res = "Panic" THEN TPanic
  ELSE IF expected_digest.res = "Err" THEN TErr(expected_digest.val)
  ELSE TOk([path |-> path, digest |-> [variant |-> variant, bytes |-> expected_digest.val]])

(***************************************************************************)
(* hash.rs declares mod md5 and mod sha256: its md5::Digest and            *)
(* sha256::Digest are those of hash/md5.rs and hash/sha256.rs, which the   *)
(* sources at hand do not hold.  Their Digest::from_str is taken from the  *)
(* specification, section 4.1: parsing fails with MalformedDigest when the *)
(* length of the string is not twice the byte length of the digest, fails  *)
(* with InvalidHexDigit when a pair of characters is no hexadecimal byte,  *)
(* and is otherwise the inverse of rendering.  The Digest::from_str of     *)
(* md5.rs and sha256.rs are those of other types and are modelled apart    *)
(* (md5_Digest_from_str, sha256_Digest_from_str): they unwrap, and panic   *)
(* where this one returns InvalidHexDigit.                                 *)
(***************************************************************************)
MalformedDigest == [e |-> "MalformedDigest"]
InvalidHexDigit == [e |-> "InvalidHexDigit"]
hash_Digest_from_str(s, size) ==
  IF Len(s) # 2 * size THEN TErr(MalformedDigest)
  ELSE IF \E i \in 1..Len(s) : to_digit(s[i], 16) = -1 THEN TErr(InvalidHexDigit)
  ELSE TOk([i \in 1..size |-> 16 * to_digit(s[2 * i - 1], 16) + to_digit(s[2 * i], 16)])
hash_md5_Digest_from_str(s) == hash_Digest_from_str(s, md5_DIGEST_BYTE_SIZE)
hash_sha256_Digest_from_str(s) == hash_Digest_from_str(s, sha256_DIGEST_BYTE_SIZE)

\* hash.rs: parse_md5_checksum_line; the digest is a md5::Digest
parse_md5_checksum_line(line) ==
  IF MD5_GNU_STYLE_RE(line).matched
    THEN checksum_line_digest(MD5_GNU_STYLE_RE(line).g2,
                              hash_md5_Digest_from_str(MD5_GNU_STYLE_RE(line).g1), "MD5")
  ELSE IF MD5_BSD_STYLE_RE(line).matched
    THEN checksum_line_digest(MD5_BSD_STYLE_RE(line).g1,
                              hash_md5_Digest_from_str(MD5_BSD_STYLE_RE(line).g2), "MD5")
  ELSE TErr("fail to parse line")

\* hash.rs: parse_sha256_checksum_line; the digest is a sha256::Digest
parse_sha256_checksum_line(line) ==
  IF SHA256_GNU_STYLE_RE(line).matched
    THEN checksum_line_digest(SHA256_GNU_STYLE_RE(line).g2,
                              hash_sha256_Digest_from_str(SHA256_GNU_STYLE_RE(line).g1), "SHA256")
  ELSE IF SHA256_BSD_STYLE_RE(line).matched
    THEN checksum_line_digest(SHA256_BSD_STYLE_RE(line).g1,
                              hash_sha256_Digest_from_str(SHA256_BSD_STYLE_RE(line).g2), "SHA256")
  ELSE TErr("fail to parse line")

\* hash.rs print_file: println!("{}  {}", digest, name), with the separator
\* as a parameter, and println!("{} ({}) = {}", algo, name, digest)
GnuLine(digest, sep, name) == digest \o sep \o name
BsdLine(algo, name, digest) == algo \o <<32, 40>> \o name \o <<41, 32, 61, 32>> \o digest

(***************************************************************************)
(* The state machine.  One byte stream is written, in pieces, to three     *)
(* engines side by side: the Writer built by md5() (Endian::Little), the   *)
(* Writer built by sha256() (Endian::Big) and the standalone md5::Context. *)
(* Then compute is called on each.                                         *)
(***************************************************************************)
\* longest byte stream written
MaxLen == 130
\* longest single slice written (more than two blocks' worth with the buffer)
BigChunk == 129

\* lengths of the slices handed to write
ChunkLens == {0, 1, CHUNK_BYTE_SIZE, BigChunk}

\* a stream with 0x00, 0x80 and varied bytes, no two blocks of it alike
InMix ==
  [i \in 1..MaxLen |->
     IF i % 5 = 0 THEN 0 ELSE IF i % 3 = 0 THEN 128 ELSE (i * 37 + 91) % 256]
\* [0x41; 64], whose prefixes are the inputs of the tests a_51, a_55, a_64
InA == [i \in 1..CHUNK_BYTE_SIZE |-> 65]
\* "HELLO"
InHello == <<72, 69, 76, 76, 79>>
\* "abcdefghijklmnopqrstuvwxyz"
InAlpha ==
  <<97, 98, 99, 100, 101, 102, 103, 104, 105, 106, 107, 108, 109, 110, 111, 112,
    113, 114, 115, 116, 117, 118, 119, 120, 121, 122>>
Inputs == {InMix, InA, InHello, InAlpha}

VARIABLES
  input,    \* the byte stream being digested
  written,  \* how many bytes of it have been handed to write so far
  base,     \* bytes the engines had been written before Init (8 base-256 digits,
            \* least significant first); all zero for a fresh engine
  writers,  \* the two Writers, by hash function
  ctx,      \* the md5::Context
  pc,       \* "open" until compute is called, then "done"
  ret       \* what the last call returned, per engine

vars == <<input, written, base, writers, ctx, pc, ret>>

Engines == {"MD5", "SHA256", "ctx"}

Init ==
  /\ input \in Inputs
  /\ written = 0
  /\ base = NoDigits
  /\ writers = [MD5 |-> hash_md5_writer, SHA256 |-> hash_sha256_writer]
  /\ ctx = Context_new
  /\ pc = "open"
  /\ ret = [op |-> "new", val |-> <<>>]

NonePanicked == ~ctx.panicked /\ \A f \in Func : ~writers[f].panicked

\* io::Write::write on each engine, with the next k bytes of the stream
Write(k) ==
  /\ pc = "open"
  /\ NonePanicked
  /\ written + k <= Len(input)
  /\ LET data == slice(input, written, written + k)
         wm == Writer_write(writers["MD5"], data)
         ws == Writer_write(writers["SHA256"], data)
         wc == Context_write(ctx, data)
     IN  /\ writers' = [MD5 |-> wm.self, SHA256 |-> ws.self]
         /\ ctx' = wc.self
         /\ ret' = [op |-> "write",
                    val |-> [MD5 |-> wm.ret, SHA256 |-> ws.ret, ctx |-> wc.ret]]
  /\ written' = written + k
  /\ UNCHANGED <<input, base, pc>>

\* compute on each engine
Compute ==
  /\ pc = "open"
  /\ NonePanicked
  /\ LET wm == Writer_compute(writers["MD5"])
         ws == Writer_compute(writers["SHA256"])
         wc == Context_compute(ctx)
     IN  /\ writers' = [MD5 |-> wm, SHA256 |-> ws]
         /\ ctx' = wc.self
         /\ ret' = [op |-> "compute",
                    val |-> [MD5 |-> Ctx_get_digest(wm.hasher),
                             SHA256 |-> Ctx_get_digest(ws.hasher),
                             ctx |-> wc.digest]]
  /\ pc' = "done"
  /\ UNCHANGED <<input, written, base>>

Next == (\E k \in ChunkLens : Write(k)) \/ Compute

Spec == Init /\ [][Next]_vars

(***************************************************************************)
(* Engines in long use.  The byte counter and the bit length wrap only     *)
(* after 2^61 and 2^64 bytes, which no run of writes from a fresh engine   *)
(* reaches within the bounds.  SpecAged starts from an engine that has     *)
(* already been written `base` bytes 0x41, base a multiple of 64 and at    *)
(* least 64.  consume has then compressed base / 64 - 1 blocks of 0x41 and *)
(* holds the last block in a full accumulator (it leaves a completed block *)
(* buffered until more data arrives), and the counter is base.  A base of  *)
(* a few blocks is written for real, with write.  A base near 2^61 or 2^64 *)
(* is more blocks than can be compressed here: the engine elides them (the *)
(* hasher was handed them, its sequence starts after them) and the state   *)
(* words of md5::Context, which depend on all of them, are Undetermined.   *)
(***************************************************************************)
AgedInput == InMix

\* 128, 2^61 - 64, 2^64 - 64 and 0x0123456789abcdc0, least significant byte
\* first
AgedBases ==
  { <<\h80, \h00, \h00, \h00, \h00, \h00, \h00, \h00>>,
    <<\hc0, \hff, \hff, \hff, \hff, \hff, \hff, \h1f>>,
    <<\hc0, \hff, \hff, \hff, \hff, \hff, \hff, \hff>>,
    <<\hc0, \hcd, \hab, \h89, \h67, \h45, \h23, \h01>> }

\* the u64 with the base-256 digits d
U64FromDigits(d) ==
  <<d[8] * 256 + d[7], d[6] * 256 + d[5], d[4] * 256 + d[3], d[2] * 256 + d[1]>>

\* the digits of a number that fits two of them, as a number
IsSmall(d) == \A j \in 3..Len(d) : d[j] = 0
Small(d) == d[2] * 256 + d[1]

\* d div m and d - 1 (d > 0) on base-256 digits, least significant first
RECURSIVE NatDivSmall(_, _, _)
NatDivSmall(d, m, rem) ==
  IF d = <<>> THEN <<>>
  ELSE LET cur == rem * 256 + d[Len(d)]
       IN  NatDivSmall(SubSeq(d, 1, Len(d) - 1), m, cur % m) \o <<cur \div m>>
RECURSIVE NatPred(_)
NatPred(d) ==
  IF d = <<>> THEN <<>>
  ELSE IF d[1] > 0 THEN <<d[1] - 1>> \o Tail(d)
  ELSE <<255>> \o NatPred(Tail(d))

\* the blocks consume has compressed once b bytes are written, b a multiple
\* of 64 and not 0: all but the last, which stays buffered
BlocksBefore(b) == NatPred(NatDivSmall(b, CHUNK_BYTE_SIZE, 0))

\* n bytes 0x41
Filler(n) == [i \in 1..n |-> 65]

\* the engine after b bytes 0x41 with its blocks elided: counter, offset and
\* accumulator as consume leaves them
Elided(self, b) ==
  [self EXCEPT !.data_bytes_len = U64FromDigits(b),
               !.buf_seed = CHUNK_BYTE_SIZE,
               !.buf = Filler(CHUNK_BYTE_SIZE),
               !.elided = BlocksBefore(b)]

\* the Writer self, newly constructed, after b bytes 0x41; no call is in
\* progress
AgedWriter(self, b) ==
  IF IsSmall(b) THEN [Writer_write(self, Filler(Small(b))).self EXCEPT !.probe = <<>>]
  ELSE Elided(self, b)

\* md5::Context after b bytes 0x41
AgedContext(b) ==
  IF IsSmall(b) THEN [Context_write(Context_new, Filler(Small(b))).self EXCEPT !.probe = <<>>]
  ELSE [Elided(Context_new, b) EXCEPT !.a_s = Undetermined, !.b_s = Undetermined,
                                       !.c_s = Undetermined, !.d_s = Undetermined]

InitAged ==
  /\ input = AgedInput
  /\ written = 0
  /\ base \in AgedBases
  /\ writers = [MD5 |-> AgedWriter(hash_md5_writer, base),
                SHA256 |-> AgedWriter(hash_sha256_writer, base)]
  /\ ctx = AgedContext(base)
  /\ pc = "open"
  /\ ret = [op |-> "new", val |-> <<>>]

SpecAged == InitAged /\ [][Next]_vars

(***************************************************************************)
(* What the claims speak of                                                *)
(***************************************************************************)
\* the engine named e, the blocks it has compressed, the endianness of its
\* length field
Eng(e) == IF e = "ctx" THEN ctx ELSE writers[e]
Blocks(e) == IF e = "ctx" THEN ctx.eaten ELSE writers[e].hasher
EndianOf(e) == IF e = "ctx" THEN "Little" ELSE writers[e].endian
LastBlock(e) == Blocks(e)[Len(Blocks(e))]

\* S: the bytes written so far
Stream == slice(input, 0, written)

\* the blocks of bs laid end to end
Flatten(bs) ==
  [i \in 1..(CHUNK_BYTE_SIZE * Len(bs)) |->
     bs[((i - 1) \div CHUNK_BYTE_SIZE) + 1][((i - 1) % CHUNK_BYTE_SIZE) + 1]]

Zeros(n) == [i \in 1..n |-> 0]
Reverse(s) == [i \in 1..Len(s) |-> s[Len(s) + 1 - i]]

\* natural numbers of any size, as base-256 digits, least significant first
RECURSIVE NatAddSmall(_, _)
NatAddSmall(d, n) ==
  IF d = <<>> THEN <<>>
  ELSE <<(d[1] + n) % 256>> \o NatAddSmall(Tail(d), (d[1] + n) \div 256)
RECURSIVE NatMulSmall(_, _, _)
NatMulSmall(d, m, carry) ==
  IF d = <<>> THEN <<>>
  ELSE <<(d[1] * m + carry) % 256>> \o NatMulSmall(Tail(d), m, (d[1] * m + carry) \div 256)

\* all bytes ever written to the engines, and eight times that, exactly
TotalBytes == NatAddSmall(base \o <<0, 0>>, written)
TotalBits == NatMulSmall(TotalBytes, 8, 0)
\* n mod 2^64, as 8 digits
Mod64(d) == SubSeq(d, 1, 8)

\* the 8-byte bit-length field as it must appear in a block
LenField(endian) == IF endian = "Big" THEN Reverse(Mod64(TotalBits)) ELSE Mod64(TotalBits)

\* the eight bytes of a u64, least significant first
U64Bytes(x) == [j \in 1..8 |-> u64_byte(x, j - 1)]

\* the digests of the stream written in one piece to engines just constructed
OneShotWriter(w) == Ctx_get_digest(Writer_compute(Writer_write(w, Stream).self).hasher)
OneShotContext == Context_compute(Context_write(Context_new, Stream).self).digest

\* the offset at which padding began: compute leaves buf_seed as it was
PadOffset(e) == Eng(e).buf_seed
\* the bytes that were buffered, not yet compressed, when padding began
Held(e) == slice(Stream, written - PadOffset(e), written)
\* the blocks compressed by the last call
Compressed(e) == Len(Eng(e).probe)
\* the last block but one
FirstOfTwo(e) == Blocks(e)[Len(Blocks(e)) - 1]

\* the least number of zero bytes that brings n bytes, the terminator and the
\* length field to a multiple of the block size
PadFits(n, k) ==
  (n + END_OF_DATA_BYTE_SIZE + k + DATA_BITS_LENGTH_BYTE_SIZE) % CHUNK_BYTE_SIZE = 0
MinZeros(n) ==
  CHOOSE k \in 0..(CHUNK_BYTE_SIZE - 1) :
    PadFits(n, k) /\ \A j \in 0..(k - 1) : ~PadFits(n, j)

(***************************************************************************)
(* C1.  The digest depends only on the concatenation of the bytes written: *)
(* however the stream was cut into slices (empty slices, slices of one     *)
(* byte, of a block, of more than two blocks), each engine's digest is the *)
(* digest of the same bytes written in one piece to a new engine.  For the *)
(* Writers and for md5::Context.                                           *)
(***************************************************************************)
C1_ChunkingInvariance ==
  pc = "done" =>
    /\ ret.val.MD5 = OneShotWriter(hash_md5_writer)
    /\ ret.val.SHA256 = OneShotWriter(hash_sha256_writer)
    /\ ret.val.ctx = OneShotContext

\* a stream of more than one block that no single write can have delivered
C1_Witness ==
  /\ pc = "done"
  /\ input = InMix
  /\ written > CHUNK_BYTE_SIZE
  /\ written \notin ChunkLens
  /\ ret.val.ctx = OneShotContext
  /\ ret.val.MD5 = OneShotWriter(hash_md5_writer)

(***************************************************************************)
(* C2.  What is compressed in all, for a stream S of n bytes, is S, then   *)
(* one byte 0x80, then the least number of zero bytes that makes the whole *)
(* a multiple of 64, then the 8-byte bit length; also when S ends at       *)
(* offset 63 of a block, where the terminator is the block's last byte.    *)
(***************************************************************************)
C2_PaddedStream ==
  pc = "done" =>
    \A e \in Engines :
      Flatten(Blocks(e)) =
        Stream \o <<128>> \o Zeros(MinZeros(written)) \o LenField(EndianOf(e))

\* a stream ending at offset 63 of its second block
C2_Witness ==
  /\ pc = "done"
  /\ written = 2 * CHUNK_BYTE_SIZE - 1
  /\ \A e \in Engines :
       /\ PadOffset(e) = CHUNK_BYTE_SIZE - 1
       /\ FirstOfTwo(e)[CHUNK_BYTE_SIZE] = 128
       /\ Len(Blocks(e)) = 3

(***************************************************************************)
(* C3.  As the claim has it: after every write the offset is in [0, 64),   *)
(* fewer than 64 bytes are buffered, and a block is compressed as soon as  *)
(* the buffered bytes reach 64, so that every whole block of the stream    *)
(* has been compressed.                                                    *)
(***************************************************************************)
C3_AsClaimed ==
  pc = "open" =>
    \A e \in Engines :
      /\ Eng(e).buf_seed \in 0..(CHUNK_BYTE_SIZE - 1)
      /\ Len(Blocks(e)) = written \div CHUNK_BYTE_SIZE

(***************************************************************************)
(* C3, as the code has it.  After every write the offset is in [0, 64]: it *)
(* is 0 only while nothing has been written, and otherwise in 1..64.  The  *)
(* buffered bytes are the last `offset` bytes of the stream and the blocks *)
(* compressed are the stream before them, in order: a block that has just  *)
(* become full stays buffered, and is compressed when the next byte        *)
(* arrives.                                                                *)
(***************************************************************************)
C3_OffsetInvariant ==
  pc = "open" =>
    \A e \in Engines :
      /\ Eng(e).buf_seed \in 0..CHUNK_BYTE_SIZE
      /\ Eng(e).buf_seed = 0 <=> written = 0
      /\ CHUNK_BYTE_SIZE * Len(Blocks(e)) + Eng(e).buf_seed = written
      /\ Flatten(Blocks(e)) \o slice(Eng(e).buf, 0, Eng(e).buf_seed) = Stream

\* a second block has become full: the first was compressed, this one waits
C3_Witness ==
  /\ pc = "open"
  /\ ret.op = "write"
  /\ written = 2 * CHUNK_BYTE_SIZE
  /\ \A e \in Engines : Eng(e).buf_seed = CHUNK_BYTE_SIZE /\ Len(Blocks(e)) = 1

(***************************************************************************)
(* C4.  As the claim has it: when padding begins at an offset above 55,    *)
(* two blocks are compressed; the first is the buffered bytes, 0x80 and    *)
(* zeros to the end of the block, the second is zero but for the length in *)
(* its last 8 bytes.                                                       *)
(***************************************************************************)
C4_AsClaimed ==
  pc = "done" =>
    \A e \in Engines :
      PadOffset(e) > CHUNK_BYTE_SIZE - (END_OF_DATA_BYTE_SIZE + DATA_BITS_LENGTH_BYTE_SIZE) =>
        /\ Compressed(e) = 2
        /\ FirstOfTwo(e) =
             Held(e) \o <<128>> \o Zeros(CHUNK_BYTE_SIZE - END_OF_DATA_BYTE_SIZE - PadOffset(e))
        /\ LastBlock(e) =
             Zeros(CHUNK_BYTE_SIZE - DATA_BITS_LENGTH_BYTE_SIZE) \o LenField(EndianOf(e))

(***************************************************************************)
(* C4, as the code has it.  When padding begins at an offset above 55, two *)
(* blocks are compressed.  At offsets 56..63 they are as claimed.  At      *)
(* offset 64 (a full block is buffered) the first is the 64 buffered bytes *)
(* and nothing else, and the second is 0x80, then zeros, then the length   *)
(* in its last 8 bytes.                                                    *)
(***************************************************************************)
C4_TwoFinalBlocks ==
  pc = "done" =>
    \A e \in Engines :
      PadOffset(e) > CHUNK_BYTE_SIZE - (END_OF_DATA_BYTE_SIZE + DATA_BITS_LENGTH_BYTE_SIZE) =>
        /\ Compressed(e) = 2
        /\ IF PadOffset(e) < CHUNK_BYTE_SIZE
             THEN /\ FirstOfTwo(e) =
                       Held(e) \o <<128>>
                         \o Zeros(CHUNK_BYTE_SIZE - END_OF_DATA_BYTE_SIZE - PadOffset(e))
                  /\ LastBlock(e) =
                       Zeros(CHUNK_BYTE_SIZE - DATA_BITS_LENGTH_BYTE_SIZE)
                         \o LenField(EndianOf(e))
             ELSE /\ FirstOfTwo(e) = Held(e)
                  /\ LastBlock(e) =
                       <<128>>
                         \o Zeros(CHUNK_BYTE_SIZE - END_OF_DATA_BYTE_SIZE
                                    - DATA_BITS_LENGTH_BYTE_SIZE)
                         \o LenField(EndianOf(e))

\* padding began at offset 60 of the second block, whose accumulator still
\* held the first block's bytes
C4_Witness ==
  /\ pc = "done"
  /\ input = InMix
  /\ written = 2 * CHUNK_BYTE_SIZE - 4
  /\ \A e \in Engines : PadOffset(e) = CHUNK_BYTE_SIZE - 4 /\ Compressed(e) = 2

(***************************************************************************)
(* C5.  When padding begins at an offset of at most 55, one block is       *)
(* compressed: the buffered bytes, 0x80, zeros up to byte 56, and the      *)
(* length in the last 8 bytes.                                             *)
(***************************************************************************)
C5_OneFinalBlock ==
  pc = "done" =>
    \A e \in Engines :
      PadOffset(e) <= CHUNK_BYTE_SIZE - (END_OF_DATA_BYTE_SIZE + DATA_BITS_LENGTH_BYTE_SIZE) =>
        /\ Compressed(e) = 1
        /\ LastBlock(e) =
             Held(e) \o <<128>>
               \o Zeros(CHUNK_BYTE_SIZE - END_OF_DATA_BYTE_SIZE
                          - DATA_BITS_LENGTH_BYTE_SIZE - PadOffset(e))
               \o LenField(EndianOf(e))

\* padding began at offset 2 of the second block, whose accumulator still
\* held the first block's bytes
C5_Witness ==
  /\ pc = "done"
  /\ input = InMix
  /\ written = CHUNK_BYTE_SIZE + 2
  /\ \A e \in Engines : PadOffset(e) = 2 /\ Compressed(e) = 1 /\ Len(Blocks(e)) = 2

(***************************************************************************)
(* C6.  Every write adds the whole length of its slice to the byte         *)
(* counter, modulo 2^64, before any block is compressed in that call: the  *)
(* counter the engine holds at each compress of the call is already the    *)
(* counter after the call.  After any writes the counter is the number of  *)
(* bytes ever written, modulo 2^64, however they were cut.                 *)
(***************************************************************************)
C6_ByteCounter ==
  pc = "open" =>
    \A e \in Engines :
      /\ U64Bytes(Eng(e).data_bytes_len) = Mod64(TotalBytes)
      /\ \A j \in 1..Len(Eng(e).probe) : Eng(e).probe[j] = Eng(e).data_bytes_len

\* the counter has passed 2^64 in a call that compressed a block
C6_Witness ==
  /\ pc = "open"
  /\ ret.op = "write"
  /\ TotalBytes[9] = 1
  /\ written = CHUNK_BYTE_SIZE + 1
  /\ \A e \in Engines :
       /\ Eng(e).data_bytes_len = <<0, 0, 0, 1>>
       /\ Eng(e).probe # <<>>

(***************************************************************************)
(* C7.  The bit length compute writes is (bytes ever written * 8) mod      *)
(* 2^64: the product wraps, compute does not panic on it, and the length   *)
(* is the same whether one final block is compressed or two.               *)
(***************************************************************************)
C7_BitLength ==
  pc = "done" =>
    \A e \in Engines :
      /\ ~Eng(e).panicked
      /\ Compressed(e) \in {1, 2}
      /\ LET field == slice(LastBlock(e), CHUNK_BYTE_SIZE - DATA_BITS_LENGTH_BYTE_SIZE,
                            CHUNK_BYTE_SIZE)
         IN  (IF EndianOf(e) = "Big" THEN Reverse(field) ELSE field) = Mod64(TotalBits)

\* 2^61 + 1 bytes have been written: the product has passed 2^64 and the
\* length written is 8, in a single final block
C7_Witness ==
  /\ pc = "done"
  /\ TotalBits[9] = 1
  /\ Mod64(TotalBits) = <<8, 0, 0, 0, 0, 0, 0, 0>>
  /\ \A e \in Engines : Compressed(e) = 1

(***************************************************************************)
(* C8.  The bit length is in bytes 56..63 of the last block compressed.    *)
(* With Endian::Little byte 56 is its least significant byte and byte 63   *)
(* its most significant; with Endian::Big byte 56 is the most significant  *)
(* and byte 63 the least.  The MD5 engine is made with Little, the SHA-256 *)
(* engine with Big.                                                        *)
(***************************************************************************)
C8_LengthEndianness ==
  /\ writers["MD5"].endian = "Little"
  /\ writers["SHA256"].endian = "Big"
  /\ pc = "done" =>
       \A j \in 0..(DATA_BITS_LENGTH_BYTE_SIZE - 1) :
         /\ LastBlock("MD5")[56 + j + 1] = TotalBits[j + 1]
         /\ LastBlock("ctx")[56 + j + 1] = TotalBits[j + 1]
         /\ LastBlock("SHA256")[63 - j + 1] = TotalBits[j + 1]

\* a length whose 8 bytes all differ: 8 * (0x0123456789abcdc0 + 3)
C8_Witness ==
  /\ pc = "done"
  /\ written = 3
  /\ slice(LastBlock("MD5"), 56, 64) = <<\h18, \h6e, \h5e, \h4d, \h3c, \h2b, \h1a, \h09>>
  /\ slice(LastBlock("SHA256"), 56, 64) = <<\h09, \h1a, \h2b, \h3c, \h4d, \h5e, \h6e, \h18>>

(***************************************************************************)
(* C9.  write never fails: whatever the engine holds and whatever the      *)
(* slice (empty, or longer than a block), write returns Ok(n) with n the   *)
(* whole length of the slice, and does not panic.                          *)
(***************************************************************************)
C9_WriteNeverFails ==
  [][ret'.op = "write" =>
       \A e \in Engines :
         /\ ret'.val[e] = Ok(written' - written)
         /\ ~Eng(e)'.panicked]_vars

\* a slice of more than two blocks written to an accumulator that held a byte
C9_Witness ==
  /\ pc = "open"
  /\ ret.op = "write"
  /\ written = BigChunk + 1
  /\ \A e \in Engines : ret.val[e] = Ok(BigChunk) /\ Compressed(e) = 2

(***************************************************************************)
(* C10.  md5::Context computes the MD5 of RFC 1321: on the test suite of   *)
(* the RFC that the streams cover and on the inputs of the repository's    *)
(* tests, its digest is the reference digest; for no bytes it is           *)
(* d41d8cd98f00b204e9800998ecf8427e and for "HELLO"                        *)
(* eb61eead90e3b899c6bcbe27ac581660.                                       *)
(***************************************************************************)
\* message and reference digest
MD5Reference ==
  { [msg |-> <<>>,
     md5 |-> <<\hd4, \h1d, \h8c, \hd9, \h8f, \h00, \hb2, \h04,
               \he9, \h80, \h09, \h98, \hec, \hf8, \h42, \h7e>>],
    [msg |-> InHello,
     md5 |-> <<\heb, \h61, \hee, \had, \h90, \he3, \hb8, \h99,
               \hc6, \hbc, \hbe, \h27, \hac, \h58, \h16, \h60>>],
    [msg |-> <<97>>,
     md5 |-> <<\h0c, \hc1, \h75, \hb9, \hc0, \hf1, \hb6, \ha8,
               \h31, \hc3, \h99, \he2, \h69, \h77, \h26, \h61>>],
    [msg |-> <<97, 98, 99>>,
     md5 |-> <<\h90, \h01, \h50, \h98, \h3c, \hd2, \h4f, \hb0,
               \hd6, \h96, \h3f, \h7d, \h28, \he1, \h7f, \h72>>],
    [msg |-> InAlpha,
     md5 |-> <<\hc3, \hfc, \hd3, \hd7, \h61, \h92, \he4, \h00,
               \h7d, \hfb, \h49, \h6c, \hca, \h67, \he1, \h3b>>],
    [msg |-> [i \in 1..51 |-> 65],
     md5 |-> <<\h8f, \he4, \h66, \h66, \haf, \h29, \h8b, \hf2,
               \hc1, \h02, \h2a, \h62, \h8d, \h73, \he9, \h54>>],
    [msg |-> [i \in 1..55 |-> 65],
     md5 |-> <<\he3, \h8a, \h93, \hff, \he0, \h74, \ha9, \h9b,
               \h3f, \hed, \h47, \hdf, \hbe, \h37, \hdb, \h21>>],
    [msg |-> [i \in 1..64 |-> 65],
     md5 |-> <<\hd2, \h89, \ha9, \h75, \h65, \hbc, \h2d, \h27,
               \hac, \h8b, \h85, \h45, \ha5, \hdd, \hba, \h45>>] }

C10_MD5Reference ==
  pc = "done" =>
    \A r \in MD5Reference : Stream = r.msg => ret.val.ctx = r.md5

\* "HELLO" has been digested
C10_Witness ==
  /\ pc = "done"
  /\ Stream = InHello
  /\ ret.val.ctx = <<\heb, \h61, \hee, \had, \h90, \he3, \hb8, \h99,
                     \hc6, \hbc, \hbe, \h27, \hac, \h58, \h16, \h60>>

(***************************************************************************)
(* C11.  The Writer built by sha256(), driving sha256::Context, computes   *)
(* the SHA-256 of FIPS 180-4: on the reference messages the streams cover  *)
(* its digest is the reference digest; for no bytes it is e3b0c442...b855  *)
(* and for "abc" ba7816bf...15ad.                                          *)
(***************************************************************************)
\* the digest sha256() returns: get_digest of a new sha256::Context after
\* compress on each block the Writer passed to it
hash_sha256(chunks) == sha256_get_digest(sha256_compress_all(sha256_Context_new, chunks))

\* message and reference digest
SHA256Reference ==
  { [msg |-> <<>>,
     sha |-> <<\he3, \hb0, \hc4, \h42, \h98, \hfc, \h1c, \h14,
             \h9a, \hfb, \hf4, \hc8, \h99, \h6f, \hb9, \h24,
             \h27, \hae, \h41, \he4, \h64, \h9b, \h93, \h4c,
             \ha4, \h95, \h99, \h1b, \h78, \h52, \hb8, \h55>>],
    [msg |-> <<97, 98, 99>>,
     sha |-> <<\hba, \h78, \h16, \hbf, \h8f, \h01, \hcf, \hea,
             \h41, \h41, \h40, \hde, \h5d, \hae, \h22, \h23,
             \hb0, \h03, \h61, \ha3, \h96, \h17, \h7a, \h9c,
             \hb4, \h10, \hff, \h61, \hf2, \h00, \h15, \had>>],
    [msg |-> InHello,
     sha |-> <<\h37, \h33, \hcd, \h97, \h7f, \hf8, \heb, \h18,
             \hb9, \h87, \h35, \h7e, \h22, \hce, \hd9, \h9f,
             \h46, \h09, \h7f, \h31, \hec, \hb2, \h39, \he8,
             \h78, \hae, \h63, \h76, \h0e, \h83, \he4, \hd5>>],
    [msg |-> InAlpha,
     sha |-> <<\h71, \hc4, \h80, \hdf, \h93, \hd6, \hae, \h2f,
             \h1e, \hfa, \hd1, \h44, \h7c, \h66, \hc9, \h52,
             \h5e, \h31, \h62, \h18, \hcf, \h51, \hfc, \h8d,
             \h9e, \hd8, \h32, \hf2, \hda, \hf1, \h8b, \h73>>],
    [msg |-> [i \in 1..51 |-> 65],
     sha |-> <<\h1d, \h31, \h61, \h6e, \h30, \h73, \h23, \hbd,
             \h80, \h77, \h5a, \he7, \h48, \h3f, \hce, \h65,
             \h4a, \h3b, \h65, \hbc, \hed, \h71, \h34, \hc2,
             \h2e, \h17, \h9a, \h2e, \h25, \h15, \h50, \h09>>],
    [msg |-> [i \in 1..55 |-> 65],
     sha |-> <<\h89, \h63, \hcc, \h0a, \hfd, \h62, \h2c, \hc7,
             \h57, \h4a, \hc2, \h01, \h1f, \h93, \ha3, \h05,
             \h9b, \h3d, \h65, \h54, \h8a, \h77, \h54, \h2a,
             \h15, \h59, \he3, \hd2, \h02, \he6, \hab, \h00>>],
    [msg |-> [i \in 1..64 |-> 65],
     sha |-> <<\hd5, \h3e, \hda, \h7a, \h63, \h7c, \h99, \hcc,
             \h7f, \hb5, \h66, \hd9, \h6e, \h9f, \ha1, \h09,
             \hbf, \h15, \hc4, \h78, \h41, \h0a, \h3f, \h5e,
             \hb4, \hd4, \hc4, \he2, \h6c, \hd0, \h81, \hf6>>] }

C11_SHA256Reference ==
  pc = "done" =>
    \A r \in SHA256Reference :
      Stream = r.msg => hash_sha256(writers["SHA256"].hasher) = r.sha

\* "abc" has been digested
C11_Witness ==
  /\ pc = "done"
  /\ Stream = <<97, 98, 99>>
  /\ hash_sha256(writers["SHA256"].hasher) =
       <<\hba, \h78, \h16, \hbf, \h8f, \h01, \hcf, \hea,
         \h41, \h41, \h40, \hde, \h5d, \hae, \h22, \h23,
         \hb0, \h03, \h61, \ha3, \h96, \h17, \h7a, \h9c,
         \hb4, \h10, \hff, \h61, \hf2, \h00, \h15, \had>>

(***************************************************************************)
(* C12.  An engine written n bytes in all calls compress                   *)
(* floor((n + 8) / 64) + 1 times over all writes and compute: once for     *)
(* n <= 55, twice for 56 <= n <= 64.  For 51, 55, 56, 63 and 64 bytes of   *)
(* 0x41, which take both branches of compute, the MD5 and SHA-256 digests  *)
(* are the reference digests.                                              *)
(***************************************************************************)
\* number of bytes 0x41, reference MD5 and reference SHA-256
BoundaryReference ==
  { [n |-> 51,
     md5 |-> <<\h8f, \he4, \h66, \h66, \haf, \h29, \h8b, \hf2,
             \hc1, \h02, \h2a, \h62, \h8d, \h73, \he9, \h54>>,
     sha |-> <<\h1d, \h31, \h61, \h6e, \h30, \h73, \h23, \hbd,
             \h80, \h77, \h5a, \he7, \h48, \h3f, \hce, \h65,
             \h4a, \h3b, \h65, \hbc, \hed, \h71, \h34, \hc2,
             \h2e, \h17, \h9a, \h2e, \h25, \h15, \h50, \h09>>],
    [n |-> 55,
     md5 |-> <<\he3, \h8a, \h93, \hff, \he0, \h74, \ha9, \h9b,
             \h3f, \hed, \h47, \hdf, \hbe, \h37, \hdb, \h21>>,
     sha |-> <<\h89, \h63, \hcc, \h0a, \hfd, \h62, \h2c, \hc7,
             \h57, \h4a, \hc2, \h01, \h1f, \h93, \ha3, \h05,
             \h9b, \h3d, \h65, \h54, \h8a, \h77, \h54, \h2a,
             \h15, \h59, \he3, \hd2, \h02, \he6, \hab, \h00>>],
    [n |-> 56,
     md5 |-> <<\ha2, \hf3, \he2, \h02, \h49, \h31, \hbd, \h47,
             \h05, \h55, \h00, \h2a, \ha5, \hcc, \hc0, \h10>>,
     sha |-> <<\h6e, \ha7, \h19, \hce, \hfa, \h4b, \h31, \h86,
             \h20, \h35, \ha7, \hfa, \h60, \h6b, \h7c, \hc3,
             \h60, \h2f, \h46, \h23, \h11, \h17, \hd1, \h35,
             \hcc, \h71, \h19, \hb3, \hc1, \h41, \h23, \h14>>],
    [n |-> 63,
     md5 |-> <<\h5f, \h1c, \h4b, \hb2, \h97, \h04, \h71, \ha5,
             \hc7, \h5b, \h7b, \ha1, \hdc, \h9e, \he3, \hed>>,
     sha |-> <<\h1b, \h58, \hd0, \h0f, \h5b, \h1f, \hbd, \h2a,
             \h18, \h84, \hd6, \h66, \ha2, \hbe, \h33, \hc2,
             \hfa, \h74, \h63, \hdf, \hf3, \h2c, \hd6, \h0e,
             \hf2, \h00, \hc0, \hf7, \h50, \ha6, \hb7, \h0f>>],
    [n |-> 64,
     md5 |-> <<\hd2, \h89, \ha9, \h75, \h65, \hbc, \h2d, \h27,
             \hac, \h8b, \h85, \h45, \ha5, \hdd, \hba, \h45>>,
     sha |-> <<\hd5, \h3e, \hda, \h7a, \h63, \h7c, \h99, \hcc,
             \h7f, \hb5, \h66, \hd9, \h6e, \h9f, \ha1, \h09,
             \hbf, \h15, \hc4, \h78, \h41, \h0a, \h3f, \h5e,
             \hb4, \hd4, \hc4, \he2, \h6c, \hd0, \h81, \hf6>>] }

C12_BoundaryLengths ==
  pc = "done" =>
    /\ \A e \in Engines :
         Len(Blocks(e)) = ((written + DATA_BITS_LENGTH_BYTE_SIZE) \div CHUNK_BYTE_SIZE) + 1
    /\ \A r \in BoundaryReference :
         (input = InA /\ written = r.n) =>
           /\ ret.val.ctx = r.md5
           /\ hash_sha256(writers["SHA256"].hasher) = r.sha
           /\ \A e \in Engines : Compressed(e) = IF r.n <= 55 THEN 1 ELSE 2

\* 56 bytes of 0x41: the first length that takes two final blocks
C12_Witness ==
  /\ pc = "done"
  /\ input = InA
  /\ written = 56
  /\ \A e \in Engines : Len(Blocks(e)) = 2 /\ Compressed(e) = 2
  /\ ret.val.ctx = <<\ha2, \hf3, \he2, \h02, \h49, \h31, \hbd, \h47,
                   \h05, \h55, \h00, \h2a, \ha5, \hcc, \hc0, \h10>>

(***************************************************************************)
(* Large inputs: the streams of the tests a_1000, a_1000_chunk, a_1018 and *)
(* a_1018_chunk of md5.rs, written as the tests write them: in one call,   *)
(* or cut by data.chunks(n) into pieces of n bytes and a shorter last one. *)
(***************************************************************************)
InA1000 == [i \in 1..1000 |-> 65]
InA1018 == [i \in 1..1018 |-> 65]
LargeInputs == {InA1000, InA1018}

\* $chunk_size of a_1000_chunk and of a_1018_chunk
ChunkSize(in) == IF in = InA1018 THEN 17 ELSE 7

InitLarge ==
  /\ input \in LargeInputs
  /\ written = 0
  /\ base = NoDigits
  /\ writers = [MD5 |-> hash_md5_writer, SHA256 |-> hash_sha256_writer]
  /\ ctx = Context_new
  /\ pc = "open"
  /\ ret = [op |-> "new", val |-> <<>>]

\* ctx.write(&$data)
WriteAll == written = 0 /\ Write(Len(input))

\* for chunk in $data.chunks($chunks) { ctx.write(&chunk) }
WriteChunk ==
  /\ written < Len(input)
  /\ Write(IF Len(input) - written < ChunkSize(input)
             THEN Len(input) - written
             ELSE ChunkSize(input))

NextLarge == WriteAll \/ WriteChunk \/ Compute

SpecLarge == InitLarge /\ [][NextLarge]_vars

(***************************************************************************)
(* C13.  For 1018 bytes of 0x41 md5::Context comes to compute with offset  *)
(* 58, compresses two final blocks and returns                             *)
(* b7dffc699b081a6c9fd05973f1d23360; for 1000 bytes of 0x41 it compresses  *)
(* one final block and returns 7644672d049290f0390d9c993c7d343d; and so it *)
(* does from every state in which the whole input has been written, in one *)
(* call or in chunks of 17 (resp. 7) bytes.                                *)
(***************************************************************************)
MD5OfA1000 ==
  <<\h76, \h44, \h67, \h2d, \h04, \h92, \h90, \hf0,
    \h39, \h0d, \h9c, \h99, \h3c, \h7d, \h34, \h3d>>
MD5OfA1018 ==
  <<\hb7, \hdf, \hfc, \h69, \h9b, \h08, \h1a, \h6c,
    \h9f, \hd0, \h59, \h73, \hf1, \hd2, \h33, \h60>>

C13_LargeInput ==
  /\ (pc = "done" /\ written = Len(input)) =>
       IF input = InA1018
         THEN /\ ctx.buf_seed = 58
              /\ Len(ctx.probe) = 2
              /\ ret.val.ctx = MD5OfA1018
         ELSE /\ ctx.buf_seed <= 55
              /\ Len(ctx.probe) = 1
              /\ ret.val.ctx = MD5OfA1000
  /\ (pc = "open" /\ written = Len(input)) =>
       Context_compute(ctx).digest = IF input = InA1018 THEN MD5OfA1018 ELSE MD5OfA1000

\* 1018 bytes have been digested through the two final blocks
C13_Witness ==
  /\ pc = "done"
  /\ input = InA1018
  /\ written = 1018
  /\ ctx.buf_seed = 58
  /\ Len(ctx.probe) = 2
  /\ Len(ctx.eaten) = 17
  /\ ret.val.ctx = MD5OfA1018

(***************************************************************************)
(* Digests as text: rendering a digest, parsing a string, parsing a line   *)
(* of a checksum file.  input is the operand (the bytes of a digest, or    *)
(* the bytes of a str), pc tells which, and ret is the last call and what  *)
(* it returned.  The engines stay as constructed.                          *)
(***************************************************************************)
\* the digest whose byte i is 16 * i + k (mod 256): every high nibble, and
\* over k in 0..15 every byte value
DigestRamp(size, k) == [i \in 1..size |-> ((i - 1) * 16 + k) % 256]
DigestSizes == {md5_DIGEST_BYTE_SIZE, sha256_DIGEST_BYTE_SIZE}
DigestInputs ==
  {DigestRamp(size, k) : size \in DigestSizes, k \in 0..15}
    \cup {[i \in 1..size |-> b] : size \in DigestSizes, b \in {0, 255}}

\* "0a1a2a3a4a5a6a7a8a9aaabacadaeafa" and its 64 character counterpart
TextMd5 ==
  << 48, 97, 49, 97, 50, 97, 51, 97, 52, 97, 53, 97, 54, 97, 55, 97,
     56, 97, 57, 97, 97, 97, 98, 97, 99, 97, 100, 97, 101, 97, 102, 97 >>
TextSha256 == TextMd5 \o TextMd5
\* one character of a str replaced: "0" "9" "a" "f" "A" "F" "g" "G" "z" "+"
\* "-" " " "|", or two bytes replaced by the two bytes of U+00E9
Replacements ==
  {<<c>> : c \in {48, 57, 97, 102, 65, 70, 103, 71, 122, 43, 45, 32, 124}}
    \cup {<<195, 169>>}
Substitute(s, p, cs) ==
  [i \in 1..Len(s) |-> IF i \in p..(p + Len(cs) - 1) THEN cs[i - p + 1] ELSE s[i]]
Positions(s) == {1, 2, 3, Len(s) - 2, Len(s) - 1}
\* a str cut short or extended
Resized(s) ==
  {SubSeq(s, 1, n) : n \in {0, 1, 2, Len(s) - 2, Len(s) - 1}}
    \cup {s \o <<48>>, s \o <<48, 48>>, Tail(s) \o <<122, 122>>}
TextInputs ==
  UNION {{Substitute(s, p, cs) : p \in Positions(s), cs \in Replacements}
           \cup Resized(s) \cup Resized(Substitute(s, 2, <<195, 169>>))
         : s \in {TextMd5, TextSha256}}

\* the digests written into checksum lines: MD5 and SHA-256 of the empty
\* input, and a digest with every hexadecimal digit
LineDigests(algo) ==
  IF algo = "MD5"
    THEN {<<212, 29, 140, 217, 143, 0, 178, 4, 233, 128, 9, 152, 236, 248, 66, 126>>,
          DigestRamp(md5_DIGEST_BYTE_SIZE, 10)}
    ELSE {<<227, 176, 196, 66, 152, 252, 28, 20, 154, 251, 244, 200, 153, 111, 185, 36, 39, 174, 65, 228, 100, 155, 147, 76, 164, 149, 153, 27, 120, 82, 184, 85>>,
          DigestRamp(sha256_DIGEST_BYTE_SIZE, 10)}
\* the digest as print_file prints it
LineText(algo, digest) ==
  IF algo = "MD5" THEN md5_Digest_fmt(digest) ELSE sha256_Digest_fmt(digest)
\* the same text with the digits a-f in upper case
Upper(s) == [j \in 1..Len(s) |-> IF s[j] \in 97..102 THEN s[j] - 32 ELSE s[j]]
AlgoName(algo) == IF algo = "MD5" THEN NameMd5 ELSE NameSha256
\* "file" and "a b.txt"
LineNames == {<<102, 105, 108, 101>>, <<97, 32, 98, 46, 116, 120, 116>>}
\* two spaces, as print_file writes them, one space, a tab
LineSeps == {<<32, 32>>, <<32>>, <<9>>}
\* the well-formed lines of an algorithm, in the GNU and in the BSD layout
GnuLines(algo) ==
  {GnuLine(t, sep, name) :
     t \in UNION {{LineText(algo, d), Upper(LineText(algo, d))} : d \in LineDigests(algo)},
     sep \in LineSeps, name \in LineNames}
BsdLines(algo) ==
  {BsdLine(AlgoName(algo), name, t) :
     t \in UNION {{LineText(algo, d), Upper(LineText(algo, d))} : d \in LineDigests(algo)},
     name \in LineNames}
\* n times the letter "g": the length of a digest, but no hexadecimal digit
Letters(n) == [j \in 1..n |-> 103]
\* lines that are not well formed
OtherLines ==
  { <<>>, <<102, 105, 108, 101>>, TextMd5, TextMd5 \o <<32, 32>>, TextSha256 \o <<32>>,
    SubSeq(TextMd5, 1, 31) \o <<32, 32>> \o <<102, 105, 108, 101>>,
    Substitute(TextMd5, 4, <<124>>) \o <<32, 32>> \o <<102, 105, 108, 101>>,
    <<77, 68, 53, 40, 102, 105, 108, 101, 41, 61, 32>> \o TextMd5,
    <<77, 68, 53, 32, 40, 102, 105, 108, 101, 41, 61>> \o TextMd5,
    <<83, 72, 65, 49, 32, 40, 102, 105, 108, 101, 41, 32, 61, 32>> \o TextMd5,
    <<77, 68, 53, 32, 40, 102, 105, 108, 101, 41, 32, 61, 32>> \o TextSha256,
    <<83, 72, 65, 50, 53, 54, 32, 40, 102, 105, 108, 101, 41, 32, 61, 32>> \o TextMd5 }
    \cup UNION {{GnuLine(Letters(n), <<32, 32>>, <<102, 105, 108, 101>>),
                 BsdLine(NameMd5, <<102, 105, 108, 101>>, Letters(n)),
                 BsdLine(NameSha256, <<102, 105, 108, 101>>, Letters(n))}
                : n \in {md5_DIGEST_STR_LEN, sha256_DIGEST_STR_LEN}}
LineInputs ==
  GnuLines("MD5") \cup BsdLines("MD5") \cup GnuLines("SHA256") \cup BsdLines("SHA256")
    \cup OtherLines

InitText ==
  /\ \/ pc = "digest" /\ input \in DigestInputs
     \/ pc = "text" /\ input \in TextInputs
     \/ pc = "line" /\ input \in LineInputs
  /\ written = 0
  /\ base = NoDigits
  /\ writers = [MD5 |-> hash_md5_writer, SHA256 |-> hash_sha256_writer]
  /\ ctx = Context_new
  /\ ret = [op |-> "new", val |-> <<>>]

\* the str a parser is given: the input, or the text a digest was rendered to
Operand == IF pc = "rendered" THEN ret.val ELSE input

Returned(op, val) ==
  /\ ret' = [op |-> op, val |-> val]
  /\ UNCHANGED <<input, written, base, writers, ctx>>

\* digest.to_string(), of a md5::Digest or of a sha256::Digest
Display ==
  /\ pc = "digest"
  /\ pc' = "rendered"
  /\ Returned("fmt", IF Len(input) = md5_DIGEST_BYTE_SIZE
                       THEN md5_Digest_fmt(input)
                       ELSE sha256_Digest_fmt(input))

Parsed(op, val) ==
  /\ pc \in {"text", "rendered"}
  /\ pc' = IF pc = "rendered" THEN "reparsed" ELSE "parsed"
  /\ Returned(op, val)

ParseDigestMd5 == Parsed("parse_digest_md5", parse_digest_md5(Operand))
ParseDigestSha256 == Parsed("parse_digest_sha256", parse_digest_sha256(Operand))
Md5FromStr == Parsed("md5::Digest::from_str", md5_Digest_from_str(Operand))
Sha256FromStr == Parsed("sha256::Digest::from_str", sha256_Digest_from_str(Operand))

Checked(op, val) ==
  /\ pc = "line"
  /\ pc' = "checked"
  /\ Returned(op, val)

\* hash/check.rs and hash.rs: one line of a checksum file is parsed
ParseChecksumLine == Checked("parse_checksum_line", parse_checksum_line(input))
ParseMd5ChecksumLine == Checked("parse_md5_checksum_line", parse_md5_checksum_line(input))
ParseSha256ChecksumLine ==
  Checked("parse_sha256_checksum_line", parse_sha256_checksum_line(input))

NextText ==
  \/ Display
  \/ ParseDigestMd5
  \/ ParseDigestSha256
  \/ Md5FromStr
  \/ Sha256FromStr
  \/ ParseChecksumLine
  \/ ParseMd5ChecksumLine
  \/ ParseSha256ChecksumLine

SpecText == InitText /\ [][NextText]_vars

(***************************************************************************)
(* Vocabulary of the claims about digests as text.                         *)
(***************************************************************************)
\* "0123456789abcdef"
LowerHex == <<48, 49, 50, 51, 52, 53, 54, 55, 56, 57, 97, 98, 99, 100, 101, 102>>
\* the characters 0-9, a-f and A-F
IsHexDigit(c) == c \in (48..57) \cup (97..102) \cup (65..70)
\* the two characters of pair i (from 0) of a str
PairOf(s, i) == <<s[2 * i + 1], s[2 * i + 2]>>
\* the calls that parse a digest with a length check, and the size they fill
SizeOf(op) ==
  IF op \in {"parse_digest_md5", "md5::Digest::from_str"}
    THEN md5_DIGEST_BYTE_SIZE ELSE sha256_DIGEST_BYTE_SIZE
CheckedParsers == {"parse_digest_md5", "parse_digest_sha256"}
DigestParsers == CheckedParsers \cup {"md5::Digest::from_str", "sha256::Digest::from_str"}

\* C14: a digest of N bytes is rendered as 2N characters, all of them in
\* 0-9a-f, and the characters 2i and 2i+1 are the high and the low hex digit
\* of byte i, byte 0 first
C14_Rendering ==
  pc = "rendered" =>
    /\ Len(ret.val) = 2 * Len(input)
    /\ \A j \in 1..Len(ret.val) : ret.val[j] \in (48..57) \cup (97..102)
    /\ \A i \in 0..(Len(input) - 1) :
         PairOf(ret.val, i)
           = <<LowerHex[(input[i + 1] \div 16) + 1], LowerHex[(input[i + 1] % 16) + 1]>>
\* an MD5 digest with a byte below 16 and a byte above 160 has been rendered
C14_Witness ==
  /\ pc = "rendered"
  /\ Len(input) = md5_DIGEST_BYTE_SIZE
  /\ \E i \in 1..Len(input) : input[i] < 16
  /\ \E i \in 1..Len(input) : input[i] > 160

\* the length a checked parser expects of its operand
ExpectedLen(op) == 2 * SizeOf(op)

\* C15: parse_digest_md5 (parse_digest_sha256) returns InvalidStrLen with the
\* expected and the actual length for every str whose length is not 32 (64),
\* whatever its characters are: no shorter or longer str is accepted, cut or
\* looked into
C15_WrongLength ==
  (pc = "parsed" /\ ret.op \in CheckedParsers /\ Len(input) # ExpectedLen(ret.op)) =>
    /\ ret.val.res = "Err"
    /\ ret.val.val.e = "InvalidStrLen"
    /\ ret.val.val.expected = ExpectedLen(ret.op)
    /\ ret.val.val.actual = Len(input)
\* parse_digest_md5 has refused a str of 34 hexadecimal digits
C15_Witness ==
  /\ pc = "parsed"
  /\ ret.op = "parse_digest_md5"
  /\ Len(input) = md5_DIGEST_STR_LEN + 2
  /\ \A j \in 1..Len(input) : IsHexDigit(input[j])
  /\ ret.val.res = "Err"

\* every pair of a str is made of two hexadecimal digits
AllPairsHex(s, size) ==
  \A i \in 0..(size - 1) : IsHexDigit(PairOf(s, i)[1]) /\ IsHexDigit(PairOf(s, i)[2])

\* C16: for a str of the expected length, parse_digest_md5 and
\* parse_digest_sha256 succeed only if each pair is two hexadecimal digits,
\* and fail with ParseByte if some pair is not (a sign, a space, a letter
\* that is no hexadecimal digit)
C16_InvalidHex ==
  (pc = "parsed" /\ ret.op \in CheckedParsers /\ Len(input) = ExpectedLen(ret.op)) =>
    IF AllPairsHex(input, SizeOf(ret.op))
      THEN ret.val.res = "Ok"
      ELSE ret.val.res = "Err" /\ ret.val.val.e = "ParseByte"
\* a pair that u8::from_str_radix reads: two hexadecimal digits, or '+' and
\* one hexadecimal digit
PairReads(s, i) ==
  \/ IsHexDigit(PairOf(s, i)[1]) /\ IsHexDigit(PairOf(s, i)[2])
  \/ PairOf(s, i)[1] = 43 /\ IsHexDigit(PairOf(s, i)[2])
\* what the parsers do with a str of the expected length: they succeed
\* exactly if every pair reads, fail with ParseByte(InvalidDigit), or panic
\* at a pair cut through a character of several bytes
C16_AsBuilt ==
  (pc = "parsed" /\ ret.op \in CheckedParsers /\ Len(input) = ExpectedLen(ret.op)) =>
    /\ ret.val.res = "Ok" <=> \A i \in 0..(SizeOf(ret.op) - 1) : PairReads(input, i)
    /\ ret.val.res = "Err" => ret.val.val = ParseByte("InvalidDigit")
    /\ ret.val.res = "Panic" =>
         \E i \in 0..(SizeOf(ret.op) - 1) : ~str_slice_ok(input, 2 * i, 2 * i + 2)
\* parse_digest_md5 has accepted 32 characters that start with "+a"
C16_SignAccepted ==
  /\ pc = "parsed"
  /\ ret.op = "parse_digest_md5"
  /\ Len(input) = md5_DIGEST_STR_LEN
  /\ PairOf(input, 0)[1] = 43
  /\ ret.val.res = "Ok"
  /\ ret.val.val[1] = 10

\* C17: the text a digest D of either algorithm is rendered to parses, with
\* the parser of that algorithm (parse_digest_md5, parse_digest_sha256 or
\* Digest::from_str), to a digest equal to D
C17_RoundTrip ==
  (pc = "reparsed" /\ ret.op \in DigestParsers /\ SizeOf(ret.op) = Len(input)) =>
    /\ ret.val.res = "Ok"
    /\ ret.val.val = input
\* a SHA-256 digest with bytes 0x0f and 0xff has been rendered and parsed
\* back by sha256::Digest::from_str
C17_Witness ==
  /\ pc = "reparsed"
  /\ ret.op = "sha256::Digest::from_str"
  /\ Len(input) = sha256_DIGEST_BYTE_SIZE
  /\ 15 \in {input[i] : i \in 1..Len(input)}
  /\ 255 \in {input[i] : i \in 1..Len(input)}
  /\ ret.val.res = "Ok"

\* a str that is no digest of the size a parser fills: a wrong length, or a
\* character that is no hexadecimal digit
Malformed(s, op) ==
  \/ Len(s) # ExpectedLen(op)
  \/ \E j \in 1..Len(s) : ~IsHexDigit(s[j])

\* C18: every call that parses a digest, Digest::from_str of md5 and of
\* sha256 and the checksum-line parsers that use them included, answers a
\* str with a character that is no hexadecimal digit or with a wrong length
\* by returning an error; none panics
C18_FailsAsValue ==
  /\ pc \in {"parsed", "checked"} => ret.val.res # "Panic"
  /\ (pc = "parsed" /\ ret.op \in DigestParsers /\ Malformed(input, ret.op)) =>
       ret.val.res = "Err"
\* md5::Digest::from_str has panicked on 32 characters of which one is "g"
C18_Panicked ==
  /\ pc = "parsed"
  /\ ret.op = "md5::Digest::from_str"
  /\ Len(input) = md5_DIGEST_STR_LEN
  /\ \E j \in 1..Len(input) : input[j] = 103
  /\ ret.val.res = "Panic"

(***************************************************************************)
(* Claims about the checksum-line parsers.                                 *)
(***************************************************************************)
\* the line is the well-formed line of the algorithm, in one of the two
\* layouts, that names the path name and holds the digest d
IsLineOf(line, algo, name, d) ==
  \E t \in {LineText(algo, d), Upper(LineText(algo, d))} :
    \/ \E sep \in LineSeps : line = GnuLine(t, sep, name)
    \/ line = BsdLine(AlgoName(algo), name, t)
WellFormed(line, algo) ==
  \E name \in LineNames, d \in LineDigests(algo) : IsLineOf(line, algo, name, d)

\* C19: parse_checksum_line of hash/check.rs takes the hash function from
\* the pattern that matched: a line in an MD5 layout yields an expected
\* digest of variant MD5, a line in a SHA256 layout one of variant SHA256
C19_TagFromPattern ==
  (pc = "checked" /\ ret.op = "parse_checksum_line") =>
    \A algo \in Func :
      WellFormed(input, algo) =>
        /\ ret.val.res = "Ok"
        /\ ret.val.val.digest.variant = algo
\* the MD5 line "d41d8cd98f00b204e9800998ecf8427e  file" has been parsed as a
\* SHA-256 digest and refused for its length
C19_TaggedSha256 ==
  /\ pc = "checked"
  /\ ret.op = "parse_checksum_line"
  /\ \E d \in LineDigests("MD5") :
       input = GnuLine(md5_Digest_fmt(d), <<32, 32>>, <<102, 105, 108, 101>>)
  /\ ret.val = TErr(ParseDigest(InvalidStrLen(sha256_DIGEST_STR_LEN, md5_DIGEST_STR_LEN)))

\* the algorithms whose lines a parser is to recognise
AlgosOf(op) ==
  IF op = "parse_checksum_line" THEN Func
  ELSE IF op = "parse_md5_checksum_line" THEN {"MD5"} ELSE {"SHA256"}

\* C20: the checksum-line parsers recognise both layouts for both
\* algorithms: a well-formed line "<digest><whitespace><path>" or
\* "<ALGONAME> (<path>) = <digest>" is parsed to that path and that digest
C20_BothLayouts ==
  pc = "checked" =>
    \A algo \in AlgosOf(ret.op), name \in LineNames : \A d \in LineDigests(algo) :
      IsLineOf(input, algo, name, d) =>
        /\ ret.val.res = "Ok"
        /\ ret.val.val.path = name
        /\ ret.val.val.digest.bytes = d
\* the line "MD5 (file) = d41d8cd98f00b204e9800998ecf8427e" has been reported
\* as unrecognised by parse_checksum_line
C20_Unrecognised ==
  /\ pc = "checked"
  /\ ret.op = "parse_checksum_line"
  /\ \E d \in LineDigests("MD5") :
       input = BsdLine(NameMd5, <<102, 105, 108, 101>>, md5_Digest_fmt(d))
  /\ ret.val = TErr(UnrecognizeLine)
\* what the parsers of hash.rs do: each recognises both layouts of its own
\* algorithm
C20_OwnAlgorithm ==
  (pc = "checked" /\ ret.op # "parse_checksum_line") =>
    \A algo \in AlgosOf(ret.op), name \in LineNames : \A d \in LineDigests(algo) :
      IsLineOf(input, algo, name, d) =>
        /\ ret.val.res = "Ok"
        /\ ret.val.val.path = name
        /\ ret.val.val.digest.bytes = d
\* what parse_checksum_line of hash/check.rs does: a well-formed SHA256 line
\* is parsed to its path and digest, no MD5 line is
C20_CheckRs ==
  (pc = "checked" /\ ret.op = "parse_checksum_line") =>
    /\ \A name \in LineNames, d \in LineDigests("SHA256") :
         IsLineOf(input, "SHA256", name, d) =>
           ret.val = TOk([path |-> name, digest |-> Digest_SHA256(d)])
    /\ WellFormed(input, "MD5") => ret.val.res = "Err"

(***************************************************************************)
(* The 64 rounds of eat_chunk, one at a time.  input is the block in the   *)
(* accumulator, written the loop counter i, ctx the temporaries a_temp,    *)
(* b_temp, c_temp, d_temp, and base the values g_temp has taken so far.    *)
(* After the loop the temporaries are added to the state the engine was    *)
(* constructed with.                                                       *)
(***************************************************************************)
\* the final block of the empty input, the first block of InA and of InMix
RoundBlocks ==
  {[i \in 1..CHUNK_BYTE_SIZE |-> IF i = 1 THEN 128 ELSE 0], InA,
   slice(InMix, 0, CHUNK_BYTE_SIZE)}

InitRounds ==
  /\ input \in RoundBlocks
  /\ written = 0
  /\ base = <<>>
  /\ writers = [MD5 |-> hash_md5_writer, SHA256 |-> hash_sha256_writer]
  /\ ctx = [i |-> 0, a |-> A0, b |-> B0, c |-> C0, d |-> D0]
  /\ pc = "rounds"
  /\ ret = [op |-> "new", val |-> <<>>]

\* one iteration of for i in 0usize..64
Round ==
  /\ pc = "rounds"
  /\ written < 64
  /\ ctx' = md5_round(ctx, split_words(input))
  /\ base' = Append(base, md5_g(written))
  /\ written' = written + 1
  /\ ret' = [op |-> "round", val |-> md5_g(written)]
  /\ UNCHANGED <<input, writers, pc>>

\* self.a_s = self.a_s.wrapping_add(a_temp) and the three lines after it
Sum ==
  /\ pc = "rounds"
  /\ written = 64
  /\ pc' = "summed"
  /\ ret' = [op |-> "eat_chunk",
             val |-> <<u32_wrapping_add(A0, ctx.a), u32_wrapping_add(B0, ctx.b),
                       u32_wrapping_add(C0, ctx.c), u32_wrapping_add(D0, ctx.d)>>]
  /\ UNCHANGED <<input, written, base, writers, ctx>>

NextRounds == Round \/ Sum

SpecRounds == InitRounds /\ [][NextRounds]_vars

\* the rounds of group q (0..3) have all been run
GroupDone(q) == written >= 16 * (q + 1)
\* the message words used by the rounds of group q
GroupWords(q) == {base[i + 1] : i \in (16 * q)..(16 * q + 15)}
\* what eat_chunk makes of the block in one go
EatenWhole == eat_chunk([Context_new EXCEPT !.buf = input])

\* C30: round i uses the message word i in rounds 0..15, (5i + 1) mod 16 in
\* rounds 16..31, (3i + 5) mod 16 in rounds 32..47 and 7i mod 16 in rounds
\* 48..63; the words of each group of 16 rounds are a permutation of 0..15,
\* so a block's 64 rounds use every word exactly four times
C30_WordSchedule ==
  pc \in {"rounds", "summed"} =>
    /\ Len(base) = written
    /\ \A i \in 0..(written - 1) :
         base[i + 1] = CASE i \in 0..15 -> i
                         [] i \in 16..31 -> (5 * i + 1) % 16
                         [] i \in 32..47 -> (3 * i + 5) % 16
                         [] i \in 48..63 -> (7 * i) % 16
    /\ \A q \in 0..3 : GroupDone(q) => GroupWords(q) = 0..15
    /\ written = 64 =>
         \A w \in 0..15 : Cardinality({i \in 0..63 : base[i + 1] = w}) = 4
    /\ pc = "summed" =>
         ret.val = <<EatenWhole.a_s, EatenWhole.b_s, EatenWhole.c_s, EatenWhole.d_s>>
\* the 64 rounds of the first block of InMix have been run and summed
C30_Witness ==
  /\ pc = "summed"
  /\ input = slice(InMix, 0, CHUNK_BYTE_SIZE)
  /\ written = 64
  /\ \A q \in 0..3 : GroupWords(q) = 0..15

(***************************************************************************)
(* The byte order of words.  A word is its two 16-bit halves <<hi, lo>>.   *)
(***************************************************************************)
\* the four bytes of a word, least significant first, and the same reversed
BytesLsbFirst(w) == <<w[2] % 256, w[2] \div 256, w[1] % 256, w[1] \div 256>>
BytesMsbFirst(w) == Reverse(BytesLsbFirst(w))
\* the 4-byte group k (from 0) of a block
Group(block, k) == SubSeq(block, 4 * k + 1, 4 * k + 4)
\* the word whose bytes, least significant first, are g
WordOfLsbFirst(g) == <<g[4] * 256 + g[3], g[2] * 256 + g[1]>>
\* the state of the SHA-256 Context driven by the Writer
Sha256State == sha256_compress_all(sha256_Context_new, Blocks("SHA256"))

\* C29: the MD5 digest is the state words A, B, C, D in this order, each
\* least significant byte first, and MD5 reads each 4-byte group of a block
\* as a little-endian word; the SHA-256 digest is the eight state words in
\* order, each most significant byte first, and SHA-256 reads each 4-byte
\* group of a block as a big-endian word
C29_WordLayout ==
  pc = "done" =>
    /\ ret.val["ctx"] = BytesLsbFirst(ctx.a_s) \o BytesLsbFirst(ctx.b_s)
                          \o BytesLsbFirst(ctx.c_s) \o BytesLsbFirst(ctx.d_s)
    /\ \A n \in 1..Len(ctx.eaten) :
         split_words(ctx.eaten[n])
           = [k \in 1..16 |-> WordOfLsbFirst(Group(ctx.eaten[n], k - 1))]
    /\ LET state == Sha256State
       IN  /\ Len(state) = 8
           /\ sha256_get_digest(state)
                = BytesMsbFirst(state[1]) \o BytesMsbFirst(state[2])
                    \o BytesMsbFirst(state[3]) \o BytesMsbFirst(state[4])
                    \o BytesMsbFirst(state[5]) \o BytesMsbFirst(state[6])
                    \o BytesMsbFirst(state[7]) \o BytesMsbFirst(state[8])
    /\ \A n \in 1..Len(Blocks("SHA256")) :
         SubSeq(get_words(Blocks("SHA256")[n]), 1, 16)
           = [k \in 1..16 |-> WordOfLsbFirst(Reverse(Group(Blocks("SHA256")[n], k - 1)))]
\* InMix has been digested whole: three blocks with bytes of every kind
C29_Witness ==
  /\ pc = "done"
  /\ input = InMix
  /\ written = Len(InMix)
  /\ Len(ctx.eaten) = 3
  /\ Len(Blocks("SHA256")) = 3
  /\ \E k \in 0..15 : Group(ctx.eaten[1], k)[1] # Group(ctx.eaten[1], k)[4]

(***************************************************************************)
(* Termination.  Each iteration of the loop of consume compresses one      *)
(* block, so the blocks compressed by a call count its iterations.         *)
(***************************************************************************)
\* the bytes handed to the last write
LastWrite(e) == ret.val[e].n

\* C26: every write and every finish returns; the loop of a write of k
\* bytes runs at most floor(k / 64) + 1 times, whatever the accumulator held
\* (a full accumulator included), and finish compresses at most two blocks
C26_Termination ==
  /\ ret.op = "write" =>
       \A e \in Engines :
         /\ ret.val[e].ok
         /\ Compressed(e) <= (LastWrite(e) \div CHUNK_BYTE_SIZE) + 1
  /\ ret.op = "compute" =>
       \A e \in Engines : ~Eng(e).panicked /\ Compressed(e) \in 1..2
\* BigChunk bytes were written to engines whose accumulator was full: the
\* loop ran floor(BigChunk / 64) + 1 times
C26_Witness ==
  /\ ret.op = "write"
  /\ written = BigChunk
  /\ \A e \in Engines :
       /\ LastWrite(e) = BigChunk
       /\ Compressed(e) = (BigChunk \div CHUNK_BYTE_SIZE) + 1

(***************************************************************************)
(* The running state and the calls that change it.                         *)
(***************************************************************************)
\* block n (from 1) of the input
StreamBlock(n) == slice(input, CHUNK_BYTE_SIZE * (n - 1), CHUNK_BYTE_SIZE * n)
\* the blocks that n bytes have filled, and the blocks that n bytes have
\* overflowed: a block is overflowed when a byte beyond it has been written
Filled(n) == n \div CHUNK_BYTE_SIZE
Overflowed(n) == IF n = 0 THEN 0 ELSE (n - 1) \div CHUNK_BYTE_SIZE
\* the four words of a md5::Context
Words(c) == <<c.a_s, c.b_s, c.c_s, c.d_s>>
\* the words after eat_chunk has been run on each of the blocks in turn
RECURSIVE EatAll(_, _)
EatAll(c, blocks) ==
  IF blocks = <<>> THEN Words(c)
  ELSE EatAll(eat_chunk([c EXCEPT !.buf = Head(blocks)]), Tail(blocks))

\* C27, as the claim has it: a write that does not complete a 64-byte block
\* leaves the running state as it was, a write that completes m blocks
\* calls compress m times, and no write changes the endianness
C27_AsClaimed ==
  [][ret'.op = "write" =>
       \A e \in Engines :
         /\ Len(Blocks(e)') - Len(Blocks(e)) = Filled(written') - Filled(written)
         /\ Filled(written') = Filled(written) =>
              Blocks(e)' = Blocks(e) /\ Words(ctx') = Words(ctx)
         /\ EndianOf(e)' = EndianOf(e)]_vars

\* C27, as the code has it: a block is compressed when a byte beyond it is
\* written.  A write that overflows no block leaves the running state as it
\* was; a write that overflows m blocks calls compress m times, on these
\* blocks of the stream in their order, and the state is changed by these
\* calls only; no write changes the endianness
C27_OnlyByCompression ==
  [][ret'.op = "write" =>
       LET m == Overflowed(written') - Overflowed(written)
           blocks == [j \in 1..m |-> StreamBlock(Overflowed(written) + j)]
       IN  /\ \A e \in Engines :
                /\ Compressed(e)' = m
                /\ Blocks(e)' = Blocks(e) \o blocks
                /\ EndianOf(e)' = EndianOf(e)
           /\ Words(ctx') = EatAll(ctx, blocks)
           /\ m = 0 => Words(ctx') = Words(ctx)]_vars
\* a second write of 64 bytes has compressed the block the first one filled
C27_Witness ==
  /\ ret.op = "write"
  /\ written = 2 * CHUNK_BYTE_SIZE
  /\ \A e \in Engines :
       /\ LastWrite(e) = CHUNK_BYTE_SIZE
       /\ Compressed(e) = 1
       /\ Blocks(e) = <<StreamBlock(1)>>

(***************************************************************************)
(* The slices and subtractions of compute and consume_final, at an offset. *)
(***************************************************************************)
\* no operation of compute fails when the accumulator holds seed bytes
ComputeSafe(seed) ==
  IF seed <= CHUNK_BYTE_SIZE - (END_OF_DATA_BYTE_SIZE + DATA_BITS_LENGTH_BYTE_SIZE)
    THEN LET pading_bytes_len == CHUNK_BYTE_SIZE - DATA_BITS_LENGTH_BYTE_SIZE - seed
         IN  /\ pading_bytes_len >= 0
             /\ slice_ok(0, pading_bytes_len, Len(PADDING))
             /\ clone_ok(seed, seed + pading_bytes_len, CHUNK_BYTE_SIZE, pading_bytes_len)
    ELSE LET pading_bytes_len == CHUNK_BYTE_SIZE - seed
         IN  /\ pading_bytes_len >= 0
             /\ slice_ok(0, pading_bytes_len, Len(PADDING))
             /\ clone_ok(seed, seed + pading_bytes_len, CHUNK_BYTE_SIZE, pading_bytes_len)
             /\ slice_ok(DATA_BITS_LENGTH_BYTE_SIZE, Len(PADDING), Len(PADDING))
             /\ clone_ok(0, CHUNK_BYTE_SIZE - DATA_BITS_LENGTH_BYTE_SIZE, CHUNK_BYTE_SIZE,
                         Len(PADDING) - DATA_BITS_LENGTH_BYTE_SIZE)

\* C28: in every state a sequence of writes can reach, a completely full
\* accumulator included, finish runs without a slice out of bounds, a copy
\* between slices of different lengths or a subtraction below zero, and
\* returns a digest
C28_FinishNeverFails ==
  /\ pc = "open" => \A e \in Engines : ComputeSafe(Eng(e).buf_seed)
  /\ pc = "done" =>
       /\ \A e \in Engines : ~Eng(e).panicked /\ Compressed(e) >= 1
       /\ Len(ret.val["ctx"]) = 16
       /\ \A f \in Func : ret.val[f] = writers[f].hasher /\ Len(ret.val[f]) >= 1
\* finish has returned from a completely full accumulator
C28_Witness ==
  /\ pc = "done"
  /\ written = CHUNK_BYTE_SIZE
  /\ \A e \in Engines : PadOffset(e) = CHUNK_BYTE_SIZE /\ ~Eng(e).panicked
  /\ Len(ret.val["ctx"]) = 16

(***************************************************************************)
(* Files and standard input.  A path is the sequence of its bytes.  The    *)
(* file system gives, for a path, what File::open returns and what reading *)
(* the opened file to its end gives; standard input is a stream that is    *)
(* at its end once it has been read.                                       *)
(***************************************************************************)
Some(v) == [some |-> TRUE, val |-> v]
None == [some |-> FALSE, val |-> <<>>]

\* core::str::from_utf8 on the bytes from position i (1-based) on
RECURSIVE run_utf8_validation(_, _)
run_utf8_validation(v, i) ==
  LET cont(j, lo, hi) == j <= Len(v) /\ v[j] \in lo..hi
      first == v[i]
  IN  IF i > Len(v) THEN TRUE
      ELSE IF first < 128 THEN run_utf8_validation(v, i + 1)
      ELSE IF first \in 194..223
        THEN cont(i + 1, 128, 191) /\ run_utf8_validation(v, i + 2)
      ELSE IF first \in 224..239
        THEN /\ cont(i + 1, IF first = 224 THEN 160 ELSE 128,
                            IF first = 237 THEN 159 ELSE 191)
             /\ cont(i + 2, 128, 191)
             /\ run_utf8_validation(v, i + 3)
      ELSE IF first \in 240..244
        THEN /\ cont(i + 1, IF first = 240 THEN 144 ELSE 128,
                            IF first = 244 THEN 143 ELSE 191)
             /\ cont(i + 2, 128, 191)
             /\ cont(i + 3, 128, 191)
             /\ run_utf8_validation(v, i + 4)
      ELSE FALSE

\* Path::to_str: Some(str) when the path is valid UTF-8
to_str(path) == IF run_utf8_validation(path, 1) THEN Some(path) ELSE None

\* "-"
Dash == <<45>>

\* io::Error, by its kind
io_Error(kind) == [e |-> "io", kind |-> kind]

\* what the file system holds at a path: the result of File::open (Ok, or
\* the kind of the error), whether reading the opened file succeeds (it
\* fails on a directory), and the bytes of the file
Entry(open, read, data) == [open |-> open, read |-> read, data |-> data]
FileNotFound == Entry("NotFound", "Err", <<>>)
\* the entry of a path; a path the file system does not hold is not found
Stat(fs, path) == IF path \in DOMAIN fs THEN fs[path] ELSE FileNotFound

Input_File(path) == [variant |-> "File", path |-> path]
Input_Stdin == [variant |-> "Stdin", path |-> <<>>]

\* libs/input.rs: Input::new.  The file is opened first; standard input is
\* taken when that fails with NotFound and the path is "-".
Input_new(file, fs) ==
  IF Stat(fs, file).open = "Ok" THEN TOk(Input_File(file))
  ELSE IF Stat(fs, file).open = "NotFound"
    THEN IF to_str(file) = Some(Dash) THEN TOk(Input_Stdin)
         ELSE TErr(io_Error(Stat(fs, file).open))
  ELSE TErr(io_Error(Stat(fs, file).open))

\* helper.rs: Input::new.  name.to_str().unwrap() panics on a path that is
\* not UTF-8; "-" is standard input without a look at the file system.
helper_Input_new(name, fs) ==
  IF ~to_str(name).some THEN TPanic
  ELSE IF to_str(name).val = Dash THEN TOk(Input_Stdin)
  ELSE IF Stat(fs, name).open = "Ok" THEN TOk(Input_File(name))
  ELSE TErr(io_Error(Stat(fs, name).open))

\* impl io::Read for Input, read to the end as io::copy does: the bytes, or
\* the error of the read; stdin is what is left of standard input afterwards.
\* The one file that opens and cannot be read is a directory: file.read
\* fails with EISDIR, io::ErrorKind::IsADirectory.
read_to_end(r, fs, stdin) ==
  IF r.variant = "Stdin" THEN [res |-> "Ok", val |-> stdin, stdin |-> <<>>]
  ELSE IF Stat(fs, r.path).read = "Ok"
    THEN [res |-> "Ok", val |-> Stat(fs, r.path).data, stdin |-> stdin]
  ELSE [res |-> "Err", val |-> io_Error("IsADirectory"), stdin |-> stdin]

\* libs/hash.rs: md5() and sha256() once io::copy has handed the bytes to the
\* Writer; the contexts compress with eat_chunk and with sha256_compress
md5(bytes) ==
  CHOOSE digest \in
    {from_state(words[1], words[2], words[3], words[4]) :
       words \in {EatAll(Context_new, Writer_compute(hasher).hasher) :
                    hasher \in {Writer_write(hash_md5_writer, bytes).self}}} : TRUE
sha256(bytes) ==
  CHOOSE digest \in
    {hash_sha256(Writer_compute(hasher).hasher) :
       hasher \in {Writer_write(hash_sha256_writer, bytes).self}} : TRUE

\* libs/hash.rs: digest(r, f)
hash_digest(r, f, fs, stdin) ==
  LET read == read_to_end(r, fs, stdin)
  IN  IF read.res = "Err" THEN read
      ELSE [read EXCEPT !.val = IF f = "MD5" THEN Digest_MD5(md5(read.val))
                                ELSE Digest_SHA256(sha256(read.val))]

\* hash/check.rs: Error
DigestIncorrect == [e |-> "DigestIncorrect"]
Error_ParseChecksumLine(err) == [e |-> "ParseChecksumLine", source |-> err]
Error_Digest(err) == [e |-> "Digest", source |-> err]

\* check::line from its second statement on, parsed being what
\* parse_checksum_line(line) returned; reported(e) is the error returned
\* when the open or the read fails
line_parsed(parsed, fs, stdin, reported(_)) ==
  LET r == Input_new(parsed.val.path, fs)
      actual_digest == hash_digest(r.val, parsed.val.digest.variant, fs, stdin)
  IN  IF parsed.res = "Panic" THEN TPanic
      ELSE IF parsed.res = "Err" THEN TErr(Error_ParseChecksumLine(parsed.val))
      ELSE IF r.res = "Err" THEN TErr(reported(r.val))
      ELSE IF actual_digest.res = "Err" THEN TErr(reported(actual_digest.val))
      ELSE IF parsed.val.digest # actual_digest.val THEN TErr(DigestIncorrect)
      ELSE TOk(<<>>)

\* impl From<io::Error> for Error, and a faulty variant of it
Error_from_io(err) == Error_Digest(err)
Error_from_io_as_mismatch(err) == DigestIncorrect

\* a faulty variant of check::line: a file that cannot be read is reported
\* as a digest that does not match
line_io_as_mismatch(l, fs, stdin) ==
  CHOOSE result \in {line_parsed(parsed, fs, stdin, Error_from_io_as_mismatch) :
                       parsed \in {parse_checksum_line(l)}} : TRUE

\* hash/check.rs: line
line(l, fs, stdin) ==
  CHOOSE result \in {line_parsed(parsed, fs, stdin, Error_from_io) :
                       parsed \in {parse_checksum_line(l)}} : TRUE

(***************************************************************************)
(* Printing digests.  Standard output is the sequence of the bytes         *)
(* written to it; println! ends what it prints with "\n".  An anyhow error *)
(* is the io::Error with the context attached to it.                       *)
(***************************************************************************)
Newline == <<10>>
TwoSpaces == <<32, 32>>

\* hash.rs: print_file; name is file.to_str().unwrap_or("-")
print_file(file, algo, digest, is_bsd) ==
  LET name == IF to_str(file).some THEN to_str(file).val ELSE Dash
  IN  IF is_bsd
        THEN BsdLine(AlgoName(algo), name, LineText(algo, digest)) \o Newline
        ELSE GnuLine(LineText(algo, digest), TwoSpaces, name) \o Newline

\* md5.rs: print_file
md5_print_file(file, digest, is_bsd) ==
  LET name == IF to_str(file).some THEN to_str(file).val ELSE Dash
  IN  IF is_bsd
        THEN BsdLine(NameMd5, name, md5_Digest_fmt(digest)) \o Newline
        ELSE GnuLine(md5_Digest_fmt(digest), TwoSpaces, name) \o Newline

\* .with_context(|| format!("...{}", file.to_str().unwrap())) on an error:
\* the closure runs, and panics on a path that is not UTF-8
with_context(err, context, file) ==
  IF to_str(file).some
    THEN [res |-> "Err", val |-> [e |-> "context", context |-> context, source |-> err]]
    ELSE TPanic

\* What a hash_file function returns: res and val as for every call, the
\* rest of standard input, and where the digested bytes came from.
Hashed(res, val, stdin, source) ==
  [res |-> res, val |-> val, stdin |-> stdin, source |-> source]
Failed(r, stdin) == Hashed(r.res, r.val, stdin, "none")

\* hash.rs: md5_hash_file and sha256_hash_file
hash_file_of(file, algo, fs, stdin) ==
  LET buf_r == Input_new(file, fs)
      copied == read_to_end(buf_r.val, fs, stdin)
  IN  IF buf_r.res = "Err"
        THEN Failed(with_context(buf_r.val, "fail to open", file), stdin)
      ELSE IF copied.res = "Err"
        THEN Failed(with_context(copied.val, "fail to read", file), stdin)
      ELSE Hashed("Ok", IF algo = "MD5" THEN md5(copied.val) ELSE sha256(copied.val),
                  copied.stdin, buf_r.val.variant)
md5_hash_file(file, fs, stdin) == hash_file_of(file, "MD5", fs, stdin)
sha256_hash_file(file, fs, stdin) == hash_file_of(file, "SHA256", fs, stdin)

\* md5.rs: hash_file from Context::new() on, once io::copy has handed the
\* bytes to the Context
md5_Context_digest(bytes) ==
  CHOOSE digest \in
    {Context_compute(hasher).digest :
       hasher \in {Context_write(Context_new, bytes).self}} : TRUE

\* md5.rs: hash_file, with the Input of helper.rs and the Context of md5.rs
hash_file(file, fs, stdin) ==
  LET buf_r == helper_Input_new(file, fs)
      copied == read_to_end(buf_r.val, fs, stdin)
  IN  IF buf_r.res = "Panic" THEN Failed(TPanic, stdin)
      ELSE IF buf_r.res = "Err"
        THEN Failed(with_context(buf_r.val, "fail to open", file), stdin)
      ELSE IF copied.res = "Err"
        THEN Failed(with_context(copied.val, "fail to read", file), stdin)
      ELSE Hashed("Ok", md5_Context_digest(copied.val), copied.stdin, buf_r.val.variant)

\* The run of a command so far: what it printed, how many files failed,
\* what is left of standard input, and for each file in turn where its bytes
\* were read from ("File", "Stdin", or "none" when they were not read).
Started(stdin) ==
  [out |-> <<>>, failed |-> 0, stdin |-> stdin, sources |-> <<>>, panicked |-> FALSE]

\* the rest of the closure of create once the hash_file function has
\* returned digest and printed is what print_file prints for it: the line
\* is printed, or the failure is counted
create_print(run, digest, printed) ==
  IF digest.res = "Panic"
    THEN [run EXCEPT !.panicked = TRUE, !.sources = Append(@, "none")]
  ELSE IF digest.res = "Err"
    THEN [run EXCEPT !.failed = @ + 1, !.sources = Append(@, "none")]
  ELSE [run EXCEPT !.out = @ \o printed, !.stdin = digest.stdin,
                   !.sources = Append(@, digest.source)]

\* hash.rs: the closure of Hash::create on one file
Hash_create_file(f, algo, tag, fs, run) ==
  CHOOSE next \in
    {create_print(run, digest, print_file(f, algo, digest.val, tag)) :
       digest \in {IF algo = "MD5" THEN md5_hash_file(f, fs, run.stdin)
                   ELSE sha256_hash_file(f, fs, run.stdin)}} : TRUE

\* md5.rs: the closure of MD5::create on one file
MD5_create_file(f, tag, fs, run) ==
  CHOOSE next \in
    {create_print(run, digest, md5_print_file(f, digest.val, tag)) :
       digest \in {hash_file(f, fs, run.stdin)}} : TRUE

\* .into_iter().map(..).filter_map(..).fold(..): the files in their order,
\* until one of them panics
RECURSIVE Hash_create_loop(_, _, _, _, _)
Hash_create_loop(files, algo, tag, fs, run) ==
  IF files = <<>> \/ run.panicked THEN run
  ELSE Hash_create_loop(Tail(files), algo, tag, fs,
                        Hash_create_file(Head(files), algo, tag, fs, run))

RECURSIVE MD5_create_loop(_, _, _, _)
MD5_create_loop(files, tag, fs, run) ==
  IF files = <<>> \/ run.panicked THEN run
  ELSE MD5_create_loop(Tail(files), tag, fs, MD5_create_file(Head(files), tag, fs, run))

\* anyhow!("WARNING: {} FAILS", failed)
Fails(failed) == [e |-> "FAILS", failed |-> failed]

\* what a command returns, with its run
Exit(run) ==
  [res |-> IF run.panicked THEN "Panic" ELSE IF run.failed > 0 THEN "Err" ELSE "Ok",
   val |-> IF ~run.panicked /\ run.failed > 0 THEN Fails(run.failed) ELSE <<>>,
   out |-> run.out,
   sources |-> run.sources]

\* self.file.unwrap_or(vec![PathBuf::from("-")])
unwrap_or_dash(file) == IF file.some THEN file.val ELSE <<Dash>>

\* hash.rs: Hash::create
Hash_create(file, algo, tag, fs, stdin) ==
  Exit(Hash_create_loop(unwrap_or_dash(file), algo, tag, fs, Started(stdin)))

\* md5.rs: MD5::create
MD5_create(file, tag, fs, stdin) ==
  Exit(MD5_create_loop(unwrap_or_dash(file), tag, fs, Started(stdin)))

\* hash/digest.rs: println(f, hf, style); style is "BSD" or "GNU"
digest_println(f, hf, style, fs, stdin) ==
  LET r == Input_new(f, fs)
      digest == hash_digest(r.val, hf, fs, stdin)
      run == Started(stdin)
      name == to_str(f)
  IN  IF r.res = "Err"
        THEN [Exit(run) EXCEPT !.res = "Err", !.val = r.val, !.sources = <<"none">>]
      ELSE IF digest.res = "Err"
        THEN [Exit(run) EXCEPT !.res = "Err", !.val = digest.val, !.sources = <<"none">>]
      ELSE IF ~name.some
        THEN [Exit(run) EXCEPT !.res = "Panic", !.sources = <<r.val.variant>>]
      ELSE [Exit(run) EXCEPT
              !.out = IF style = "BSD"
                        THEN BsdLine(AlgoName(hf), name.val,
                                     LineText(hf, digest.val.bytes)) \o Newline
                        ELSE GnuLine(LineText(hf, digest.val.bytes), TwoSpaces,
                                     name.val) \o Newline,
              !.sources = <<r.val.variant>>]


(***************************************************************************)
(* The commands on files.  input is what the operation is given: a line of *)
(* a checksum file (pc "line"), a path (pc "path") or the FILE arguments   *)
(* of the command line (pc "files"); base is the file system, written is   *)
(* what standard input holds, ctx holds the options.  One operation runs   *)
(* and ret is what it returned, printed and read.                          *)
(***************************************************************************)
\* "file", "-", one byte that is no UTF-8, "a b.txt"
PathFile == <<102, 105, 108, 101>>
PathRaw == <<255>>
FilePaths == {PathFile, Dash, PathRaw, <<97, 32, 98, 46, 116, 120, 116>>}
\* "abc"
InAbc == <<97, 98, 99>>
\* absent, not permitted, a directory, an empty file, a file holding "abc"
Entries ==
  {FileNotFound, Entry("PermissionDenied", "Err", <<>>), Entry("Ok", "Err", <<>>),
   Entry("Ok", "Ok", <<>>), Entry("Ok", "Ok", InAbc)}
\* every path holds the same entry, or one path holds "abc" and the others
\* are absent
FileSystems ==
  {[p \in FilePaths |-> e] : e \in Entries}
    \cup {[p \in FilePaths |-> IF p = q THEN Entry("Ok", "Ok", InAbc) ELSE FileNotFound] :
            q \in FilePaths}

\* the MD5 and the SHA-256 of no bytes, of "abc" and of "HELLO" (what
\* standard input holds), and one value that is the digest of none of them
FileDigests(algo) ==
  IF algo = "MD5"
    THEN {<<212, 29, 140, 217, 143, 0, 178, 4, 233, 128, 9, 152, 236, 248, 66, 126>>,
          <<144, 1, 80, 152, 60, 210, 79, 176, 214, 150, 63, 125, 40, 225, 127, 114>>,
          <<235, 97, 238, 173, 144, 227, 184, 153, 198, 188, 190, 39, 172, 88, 22, 96>>,
          DigestRamp(md5_DIGEST_BYTE_SIZE, 10)}
    ELSE {<<227, 176, 196, 66, 152, 252, 28, 20, 154, 251, 244, 200, 153, 111, 185, 36, 39, 174, 65, 228, 100, 155, 147, 76, 164, 149, 153, 27, 120, 82, 184, 85>>,
          <<186, 120, 22, 191, 143, 1, 207, 234, 65, 65, 64, 222, 93, 174, 34, 35, 176, 3, 97, 163, 150, 23, 122, 156, 180, 16, 255, 97, 242, 0, 21, 173>>,
          <<55, 51, 205, 151, 127, 248, 235, 24, 185, 135, 53, 126, 34, 206, 217, 159, 70, 9, 127, 49, 236, 178, 57, 232, 120, 174, 99, 118, 14, 131, 228, 213>>,
          DigestRamp(sha256_DIGEST_BYTE_SIZE, 10)}
CheckNames == {PathFile, Dash}
CheckLines ==
  UNION {UNION {{GnuLine(LineText(algo, d), TwoSpaces, name),
                 GnuLine(Upper(LineText(algo, d)), <<9>>, name),
                 BsdLine(AlgoName(algo), name, LineText(algo, d))}
                : d \in FileDigests(algo), name \in CheckNames}
         : algo \in Func}
    \cup OtherLines

\* the FILE arguments: none, one path, two paths
FileArgs ==
  {None} \cup {Some(<<p>>) : p \in FilePaths}
    \cup {Some(<<Dash, Dash>>), Some(<<PathFile, Dash>>), Some(<<PathRaw, PathFile>>),
          Some(<<Dash, PathFile>>)}

Options(algo, tag) == [algo |-> algo, tag |-> tag]

InitFiles ==
  /\ \/ pc = "line" /\ input \in CheckLines /\ ctx = Options("SHA256", FALSE)
     \/ /\ pc = "path" /\ input \in FilePaths
        /\ ctx \in {Options(algo, tag) : algo \in Func, tag \in BOOLEAN}
     \/ /\ pc = "files" /\ input \in FileArgs
        /\ ctx \in {Options(algo, tag) : algo \in Func, tag \in BOOLEAN}
  /\ written = InHello
  /\ base \in FileSystems
  /\ writers = [MD5 |-> hash_md5_writer, SHA256 |-> hash_sha256_writer]
  /\ ret = [op |-> "new", val |-> <<>>]

Exited(op, val) ==
  /\ pc' = "exited"
  /\ ret' = [op |-> op, val |-> val]
  /\ UNCHANGED <<input, written, base, writers, ctx>>

\* hash/check.rs: check::line on one line
CheckLine ==
  /\ pc = "line"
  /\ Exited("check::line", line(input, base, written))

\* hash/digest.rs: println on one path
DigestPrintln ==
  /\ pc = "path"
  /\ Exited("digest::println",
            digest_println(input, ctx.algo, IF ctx.tag THEN "BSD" ELSE "GNU", base, written))

\* hash.rs: exec_md5 and exec_sha256 without --check
HashCreate ==
  /\ pc = "files"
  /\ Exited("Hash::create", Hash_create(input, ctx.algo, ctx.tag, base, written))

\* md5.rs: exec without --check
Md5Create ==
  /\ pc = "files"
  /\ ctx.algo = "MD5"
  /\ Exited("MD5::create", MD5_create(input, ctx.tag, base, written))

NextFiles == CheckLine \/ DigestPrintln \/ HashCreate \/ Md5Create

SpecFiles == InitFiles /\ [][NextFiles]_vars


(***************************************************************************)
(* Claims about the commands on files.                                     *)
(***************************************************************************)
\* the operation has returned
Ran(op) == pc = "exited" /\ ret.op = op
\* the line names a path and an expected digest
LineParses == parse_checksum_line(input).res = "Ok"
NamedPath == parse_checksum_line(input).val.path
ExpectedDigest == parse_checksum_line(input).val.digest
\* the bytes at a path can be read: the file opens and reads to its end, or
\* no file is found at "-", which then stands for standard input
IsRead(path) ==
  \/ Stat(base, path).open = "Ok" /\ Stat(base, path).read = "Ok"
  \/ Stat(base, path).open = "NotFound" /\ path = Dash
\* the bytes read
BytesAt(path) == IF Stat(base, path).open = "Ok" THEN Stat(base, path).data ELSE written
\* the digest of the bytes, computed with the function of the expected digest
ActualDigest ==
  IF ExpectedDigest.variant = "MD5" THEN Digest_MD5(md5(BytesAt(NamedPath)))
  ELSE Digest_SHA256(sha256(BytesAt(NamedPath)))
ErrorIs(e) == ret.val.res = "Err" /\ ret.val.val.e = e

\* C21: check::line returns Ok exactly when the line parses, the bytes
\* at the named path are read and their digest equals the expected one; it
\* returns DigestIncorrect only when the line parsed and the bytes were read but
\* the digests differ; a line that does not parse gives ParseChecksumLine
\* and bytes that cannot be read give Digest (the io::Error), never
\* DigestIncorrect
C21_Outcomes ==
  Ran("check::line") =>
    /\ ret.val.res \in {"Ok", "Err"}
    /\ ret.val.res = "Ok" <=>
         LineParses /\ IsRead(NamedPath) /\ ActualDigest = ExpectedDigest
    /\ ErrorIs("DigestIncorrect") =>
         LineParses /\ IsRead(NamedPath) /\ ActualDigest # ExpectedDigest
    /\ ~LineParses => ErrorIs("ParseChecksumLine")
    /\ LineParses /\ ~IsRead(NamedPath) =>
         ErrorIs("Digest") /\ ret.val.val.source.e = "io"

\* a line that parsed names a directory, and check::line returned Digest
C21_Witness ==
  /\ Ran("check::line")
  /\ LineParses
  /\ Stat(base, NamedPath).open = "Ok" /\ Stat(base, NamedPath).read = "Err"
  /\ ErrorIs("Digest")

\* the operations that print digests
Printers == {"Hash::create", "MD5::create", "digest::println"}
Printed == pc = "exited" /\ ret.op \in Printers
\* the paths the operation was given, "-" when it was given none
Given == IF ret.op = "digest::println" THEN <<input>> ELSE unwrap_or_dash(input)
\* the algorithm of the operation
AlgoUsed == IF ret.op = "MD5::create" THEN "MD5" ELSE ctx.algo
\* the digest of bytes as the algorithm of the operation computes it, as text
HexOf(bytes) ==
  IF AlgoUsed = "MD5" THEN md5_Digest_fmt(md5(bytes)) ELSE sha256_Digest_fmt(sha256(bytes))
\* the bytes the only file of the run was read from
BytesRead ==
  IF ret.val.sources[1] = "Stdin" THEN written ELSE Stat(base, Given[1]).data
\* one file was given, and its digest was printed
PrintedOne ==
  /\ Printed
  /\ Len(Given) = 1
  /\ ret.val.res = "Ok"
  /\ ret.val.sources = <<"File">> \/ ret.val.sources = <<"Stdin">>

\* C22: with the style flag off the printed line is the hex digest, two
\* spaces and the path; with the flag on it is ALGONAME, " (", the path,
\* ") = " and the hex digest, where ALGONAME is "MD5" or "SHA256"
C22_PrintedLine ==
  PrintedOne =>
    ret.val.out =
      IF ctx.tag
        THEN (IF AlgoUsed = "MD5" THEN <<77, 68, 53>> ELSE <<83, 72, 65, 50, 53, 54>>)
               \o <<32, 40>> \o Given[1] \o <<41, 32, 61, 32>> \o HexOf(BytesRead) \o <<10>>
        ELSE HexOf(BytesRead) \o <<32, 32>> \o Given[1] \o <<10>>

\* Hash::create digested the file at a path that is not UTF-8 and printed
\* "-" where the path belongs
C22_DashForPath ==
  /\ PrintedOne
  /\ ret.op = "Hash::create"
  /\ ~ctx.tag
  /\ Given = <<PathRaw>>
  /\ ret.val.out = HexOf(Stat(base, PathRaw).data) \o <<32, 32>> \o Dash \o <<10>>

\* C22 as built: the two layouts hold for every path that is UTF-8
C22_Utf8Paths ==
  PrintedOne /\ to_str(Given[1]).some =>
    ret.val.out =
      IF ctx.tag
        THEN (IF AlgoUsed = "MD5" THEN <<77, 68, 53>> ELSE <<83, 72, 65, 50, 53, 54>>)
               \o <<32, 40>> \o Given[1] \o <<41, 32, 61, 32>> \o HexOf(BytesRead) \o <<10>>
        ELSE HexOf(BytesRead) \o <<32, 32>> \o Given[1] \o <<10>>

\* the bytes at a path can be opened and read as a file
FileReads(path) == Stat(base, path).open = "Ok" /\ Stat(base, path).read = "Ok"
\* the text the operation printed begins (ends, with the flag on) with hex
Shows(hex) ==
  IF ctx.tag
    THEN SubSeq(ret.val.out, Len(ret.val.out) - Len(hex), Len(ret.val.out) - 1) = hex
    ELSE SubSeq(ret.val.out, 1, Len(hex)) = hex

\* C23: when no FILE is given or FILE is "-" the bytes digested are those of
\* standard input; for every other FILE they are those of the file, and a
\* file that cannot be opened gives an error
C23_InputSelection ==
  Printed =>
    /\ ret.val.res \in {"Ok", "Err"}
    /\ Len(ret.val.sources) = Len(Given)
    /\ \A i \in 1..Len(Given) :
         IF Given[i] = Dash THEN ret.val.sources[i] = "Stdin"
         ELSE IF FileReads(Given[i]) THEN ret.val.sources[i] = "File"
         ELSE ret.val.sources[i] = "none" /\ ret.val.res = "Err"
    /\ Len(Given) = 1 /\ ret.val.res = "Ok" =>
         Shows(HexOf(IF Given[1] = Dash THEN written ELSE Stat(base, Given[1]).data))

\* FILE is "-", a file of that name exists, and Hash::create printed the
\* digest of the file
C23_DashIsAFile ==
  /\ Printed
  /\ ret.op = "Hash::create"
  /\ Given = <<Dash>>
  /\ Stat(base, Dash).data = InAbc
  /\ ret.val.sources = <<"File">>
  /\ Shows(HexOf(InAbc))
  /\ ~Shows(HexOf(written))

\* C23 as built: MD5::create of md5.rs, which opens files with the
\* Input::new of helper.rs, selects its input as claimed for every path that is
\* UTF-8
C23_HelperInput ==
  Printed /\ ret.op = "MD5::create" /\ (\A i \in 1..Len(Given) : to_str(Given[i]).some) =>
    /\ ret.val.res \in {"Ok", "Err"}
    /\ Len(ret.val.sources) = Len(Given)
    /\ \A i \in 1..Len(Given) :
         IF Given[i] = Dash THEN ret.val.sources[i] = "Stdin"
         ELSE IF FileReads(Given[i]) THEN ret.val.sources[i] = "File"
         ELSE ret.val.sources[i] = "none" /\ ret.val.res = "Err"


(***************************************************************************)
(* base64/new_liner.rs: NewLiner.  The inner writer is the sequence of     *)
(* the bytes it has been given; its write accepts at most accept bytes of  *)
(* a call (every byte when it is a BufWriter over a Vec, as in the tests). *)
(***************************************************************************)
NEW_LINE == <<10>>

\* NewLiner::with_line_size
with_line_size(line_size, writer) ==
  [seed |-> 0, line_size |-> line_size, writer |-> writer]

\* the inner writer's write: what it holds afterwards and how much it took
inner_write(writer, buf, accept) ==
  LET n == IF Len(buf) < accept THEN Len(buf) ELSE accept
  IN  [writer |-> writer \o slice(buf, 0, n), n |-> n]

\* a faulty variant of write: the line is ended as soon as it is full
NewLiner_write_eager(self, buf, accept) ==
  LET space == self.line_size - self.seed
      part == IF Len(buf) < space THEN buf ELSE slice(buf, 0, space)
      writen == inner_write(self.writer, part, accept)
      full == self.seed + writen.n = self.line_size
  IN  [self |-> [self EXCEPT !.writer = IF full THEN writen.writer \o NEW_LINE
                                         ELSE writen.writer,
                             !.seed = IF full THEN 0 ELSE @ + writen.n],
       ret |-> Ok(writen.n)]

\* impl io::Write for NewLiner: write
NewLiner_write(self, buf, accept) ==
  LET ended == IF self.seed = self.line_size
                 THEN [self EXCEPT !.writer = @ \o NEW_LINE, !.seed = 0]
                 ELSE self
      space == ended.line_size - ended.seed
      part == IF Len(buf) < space THEN buf ELSE slice(buf, 0, space)
      writen == inner_write(ended.writer, part, accept)
  IN  [self |-> [ended EXCEPT !.writer = writen.writer, !.seed = @ + writen.n],
       ret |-> Ok(writen.n)]

\* io::Write::write_all on a NewLiner: write is called until the buffer is
\* empty; a call that takes nothing is the error WriteZero
RECURSIVE NewLiner_write_all(_, _, _)
NewLiner_write_all(self, buf, accept) ==
  IF buf = <<>> THEN [self |-> self, res |-> "Ok"]
  ELSE LET w == NewLiner_write(self, buf, accept)
       IN  IF w.ret.n = 0 THEN [self |-> w.self, res |-> "Err"]
           ELSE NewLiner_write_all(w.self, slice(buf, w.ret.n, Len(buf)), accept)

(***************************************************************************)
(* The line wrapper on its own: a byte sequence is written to a NewLiner   *)
(* in pieces, each with write_all.  base is the line size.                 *)
(***************************************************************************)
MaxText == 7
MaxLine == 4
\* how many bytes of a call the inner writer accepts
Accepts == {1, 2, MaxText}
\* "a\nbcdefg...": bytes that differ, the second of them a line feed
LinerText == [i \in 1..MaxText |-> IF i = 2 THEN 10 ELSE 96 + i]
LinerInputs == {slice(LinerText, 0, n) : n \in 0..MaxText}

InitLiner ==
  /\ input \in LinerInputs
  /\ written = 0
  /\ base \in 1..MaxLine
  /\ writers = [MD5 |-> hash_md5_writer, SHA256 |-> hash_sha256_writer]
  /\ ctx = with_line_size(base, <<>>)
  /\ pc = "open"
  /\ ret = [op |-> "new", val |-> <<>>]

\* write_all(&input[written..written + k])
LinerWriteAll(k, accept) ==
  /\ pc = "open"
  /\ written + k <= Len(input)
  /\ LET w == NewLiner_write_all(ctx, slice(input, written, written + k), accept)
     IN  /\ ctx' = w.self
         /\ ret' = [op |-> "write_all", val |-> [res |-> w.res, n |-> k]]
  /\ written' = written + k
  /\ UNCHANGED <<input, base, writers, pc>>

NextLiner == \E k \in 0..MaxText, accept \in Accepts : LinerWriteAll(k, accept)

SpecLiner == InitLiner /\ [][NextLiner]_vars

\* the output for the first n bytes of the input with lines of L bytes:
\* a line feed goes before byte i when i - 1 bytes, a multiple of L and not
\* zero, came before it
RECURSIVE Wrapped(_, _)
Wrapped(n, L) ==
  IF n = 0 THEN <<>>
  ELSE Wrapped(n - 1, L)
         \o (IF n > 1 /\ (n - 1) % L = 0 THEN <<10>> ELSE <<>>) \o <<input[n]>>
\* the length of line j (from 1) of an output of n bytes and m line feeds
LineLen(j, n, m, L) == IF j <= m THEN L ELSE n - m * L

\* C25: for every line size L >= 1 the output of the NewLiner is what was
\* written with one line feed after every L-th byte that is followed by
\* more data; every line holds L bytes but the last, which holds 1..L; no
\* input gives no output; the fill counter stays within 0..L
C25_Wrapping ==
  pc = "open" =>
    LET L == ctx.line_size
        out == ctx.writer
        m == IF written = 0 THEN 0 ELSE (written - 1) \div L
    IN  /\ L = base /\ L >= 1
        /\ ret.op = "write_all" => ret.val.res = "Ok"
        /\ out = Wrapped(written, L)
        /\ written = 0 => out = <<>>
        /\ Len(out) = written + m
        /\ \A j \in 1..m : out[j * (L + 1)] = 10 /\ LineLen(j, written, m, L) = L
        /\ written > 0 => LineLen(m + 1, written, m, L) \in 1..L
        /\ ctx.seed \in 0..L
        /\ ctx.seed = IF written = 0 THEN 0 ELSE LineLen(m + 1, written, m, L)

\* seven bytes were written with lines of two bytes, the last piece alone:
\* three line feeds, and a last line of one byte
C25_Witness ==
  /\ pc = "open"
  /\ written = MaxText
  /\ ctx.line_size = 2
  /\ ret.op = "write_all" /\ ret.val.n = 1
  /\ Len(ctx.writer) = MaxText + (MaxText - 1) \div 2
  /\ ctx.seed = 2 - (MaxText % 2)


(***************************************************************************)
(* base64/encoder.rs: Encoder.  The inner writer is the sequence of the    *)
(* bytes write_all has handed to it; writer is Some(it) until finish takes *)
(* it.  panicked is not a field of the code: it records that a call        *)
(* panicked.                                                               *)
(***************************************************************************)
INPUT_CHUNK_BYTE_SIZE == 3
OUTPUT_CHUNK_BYTE_SIZE == 4
base64_PADDING == <<0, 0, 0>>
\* b'A'..b'Z', b'a'..b'z', b'0'..b'9', b'+', b'/'
CODE_VEC ==
  <<65, 66, 67, 68, 69, 70, 71, 72, 73, 74, 75, 76, 77, 78, 79, 80,
    81, 82, 83, 84, 85, 86, 87, 88, 89, 90, 97, 98, 99, 100, 101, 102,
    103, 104, 105, 106, 107, 108, 109, 110, 111, 112, 113, 114, 115, 116, 117, 118,
    119, 120, 121, 122, 48, 49, 50, 51, 52, 53, 54, 55, 56, 57, 43, 47>>

\* u8 arithmetic: &, |, << and >> (bits shifted out of the byte are lost)
u8_and(a, b) == u32_and(W(0, a), W(0, b))[2]
u8_or(a, b) == u32_or(W(0, a), W(0, b))[2]
u8_shl(a, n) == (a * (2 ^ n)) % 256
u8_shr(a, n) == a \div (2 ^ n)

\* Encoder::new
Encoder_new(writer) ==
  [buf |-> [i \in 1..INPUT_CHUNK_BYTE_SIZE |-> 0],
   buf_seed |-> 0,
   encode_data |-> [i \in 1..OUTPUT_CHUNK_BYTE_SIZE |-> 0],
   writer |-> Some(writer),
   panicked |-> FALSE]

\* write_buf: the encoder afterwards and the number of bytes taken
write_buf(self, in) ==
  LET buf_free_size == INPUT_CHUNK_BYTE_SIZE - self.buf_seed
      new_buf_seed == self.buf_seed + Len(in)
  IN  IF buf_free_size < Len(in)
        THEN [self |-> [self EXCEPT
                          !.buf = clone_from_slice(@, self.buf_seed,
                                                   slice(in, 0, buf_free_size)),
                          !.buf_seed = INPUT_CHUNK_BYTE_SIZE],
              n |-> buf_free_size]
        ELSE [self |-> [self EXCEPT
                          !.buf = clone_from_slice(@, self.buf_seed, in),
                          !.buf_seed = new_buf_seed],
              n |-> Len(in)]

is_buf_full(self) == self.buf_seed = INPUT_CHUNK_BYTE_SIZE

\* a faulty variant of encode: the third character takes the low bits of
\* the second byte only
encode_low_bits(self) ==
  LET idx_0 == u8_shr(u8_and(self.buf[1], 252), 2)
      idx_1 == u8_or(u8_shl(u8_and(self.buf[1], 3), 4), u8_shr(u8_and(self.buf[2], 240), 4))
      idx_2 == u8_shl(u8_and(self.buf[2], 15), 2)
      idx_3 == u8_and(self.buf[3], 63)
  IN  [self EXCEPT !.encode_data =
         <<CODE_VEC[idx_0 + 1], CODE_VEC[idx_1 + 1], CODE_VEC[idx_2 + 1], CODE_VEC[idx_3 + 1]>>]

\* encode
encode(self) ==
  LET idx_0 == u8_shr(u8_and(self.buf[1], 252), 2)
      idx_1 == u8_or(u8_shl(u8_and(self.buf[1], 3), 4), u8_shr(u8_and(self.buf[2], 240), 4))
      idx_2 == u8_or(u8_shl(u8_and(self.buf[2], 15), 2), u8_shr(u8_and(self.buf[3], 192), 6))
      idx_3 == u8_and(self.buf[3], 63)
  IN  [self EXCEPT !.encode_data =
         <<CODE_VEC[idx_0 + 1], CODE_VEC[idx_1 + 1], CODE_VEC[idx_2 + 1], CODE_VEC[idx_3 + 1]>>]

\* impl io::Write for Encoder: write
Encoder_write(self, buf) ==
  IF ~self.writer.some THEN [self |-> [self EXCEPT !.panicked = TRUE], ret |-> Panic]
  ELSE LET taken == write_buf(self, buf)
           encoded == [encode(taken.self) EXCEPT !.buf_seed = 0]
       IN  IF is_buf_full(taken.self)
             THEN [self |-> [encoded EXCEPT !.writer = Some(@.val \o encoded.encode_data)],
                   ret |-> Ok(taken.n)]
             ELSE [self |-> taken.self, ret |-> Ok(taken.n)]

\* io::Write::write_all on an Encoder: write is called until the buffer is empty
RECURSIVE Encoder_write_all(_, _)
Encoder_write_all(self, buf) ==
  IF buf = <<>> THEN [self |-> self, ret |-> Ok(0)]
  ELSE LET w == Encoder_write(self, buf)
       IN  IF ~w.ret.ok THEN w
           ELSE Encoder_write_all(w.self, slice(buf, w.ret.n, Len(buf)))

\* a faulty variant of finish: the writer is borrowed, not taken, and the
\* offset is left as it was
Encoder_finish_borrow(self, out) ==
  IF ~self.writer.some THEN [self |-> self, out |-> out]
  ELSE IF self.buf_seed # 0
    THEN LET buf_free_size == INPUT_CHUNK_BYTE_SIZE - self.buf_seed
             padded == [self EXCEPT !.buf = clone_from_slice(@, self.buf_seed,
                                              slice(base64_PADDING, 0, buf_free_size))]
             encoded == encode(padded)
             marked == [encoded EXCEPT !.encode_data =
                          [i \in 1..OUTPUT_CHUNK_BYTE_SIZE |->
                             IF i > OUTPUT_CHUNK_BYTE_SIZE - buf_free_size
                               THEN 61 ELSE @[i]]]
         IN  [self |-> [marked EXCEPT !.writer = Some(self.writer.val \o marked.encode_data)],
              out |-> self.writer.val \o marked.encode_data]
  ELSE [self |-> self, out |-> self.writer.val]

\* finish: the encoder afterwards and what the inner writer holds; out is
\* what it held when the writer had been taken before
Encoder_finish(self, out) ==
  IF ~self.writer.some THEN [self |-> self, out |-> out]
  ELSE IF self.buf_seed # 0
    THEN LET buf_free_size == INPUT_CHUNK_BYTE_SIZE - self.buf_seed
             padded == [self EXCEPT !.buf = clone_from_slice(@, self.buf_seed,
                                              slice(base64_PADDING, 0, buf_free_size))]
             encoded == [encode(padded) EXCEPT !.buf_seed = 0]
             marked == [encoded EXCEPT !.encode_data =
                          [i \in 1..OUTPUT_CHUNK_BYTE_SIZE |->
                             IF i > OUTPUT_CHUNK_BYTE_SIZE - buf_free_size
                               THEN 61 ELSE @[i]]]
         IN  [self |-> [marked EXCEPT !.writer = None],
              out |-> self.writer.val \o marked.encode_data]
  ELSE [self |-> [self EXCEPT !.writer = None], out |-> self.writer.val]


(***************************************************************************)
(* The encoder: a byte sequence is written to an Encoder in pieces, each   *)
(* with write_all, and the encoder is finished or dropped.  base is what   *)
(* the inner writer has been given.                                        *)
(***************************************************************************)
MaxData == 7
\* "hello" repeated, "a" repeated, 0xff repeated, zeros, and mixed bytes
EncoderInputs ==
  {[i \in 1..MaxData |-> <<104, 101, 108, 108, 111>>[((i - 1) % 5) + 1]],
   [i \in 1..MaxData |-> 97],
   [i \in 1..MaxData |-> 255],
   [i \in 1..MaxData |-> 0],
   [i \in 1..MaxData |-> (i * 37 + 91) % 256],
   [i \in 1..MaxData |-> (i * 83 + 250) % 256]}

InitEncoder ==
  /\ input \in EncoderInputs
  /\ written = 0
  /\ base = <<>>
  /\ writers = [MD5 |-> hash_md5_writer, SHA256 |-> hash_sha256_writer]
  /\ ctx = Encoder_new(<<>>)
  /\ pc = "open"
  /\ ret = [op |-> "new", val |-> <<>>]

\* write_all(&input[written..written + k]); it panics once the encoder
\* has been finished
EncoderWriteAll(k) ==
  /\ pc \in {"open", "finished"}
  /\ written + k <= Len(input)
  /\ LET w == Encoder_write_all(ctx, slice(input, written, written + k))
     IN  /\ ctx' = w.self
         /\ base' = IF w.self.writer.some THEN w.self.writer.val ELSE base
         /\ written' = IF w.ret.ok THEN written + k ELSE written
         /\ pc' = IF w.ret.ok THEN pc ELSE "panicked"
         /\ ret' = [op |-> "write_all", val |-> [ok |-> w.ret.ok, n |-> k]]
  /\ UNCHANGED <<input, writers>>

\* a call of finish; `again` tells that the writer had been taken before
Finished(op, to) ==
  /\ LET f == Encoder_finish(ctx, base)
     IN  ctx' = f.self /\ base' = f.out
  /\ pc' = to
  /\ ret' = [op |-> op, val |-> [ok |-> TRUE, n |-> 0, again |-> ~ctx.writer.some]]
  /\ UNCHANGED <<input, written, writers>>

\* encoder.finish()
EncoderFinish ==
  /\ pc \in {"open", "finished"}
  /\ Finished("finish", "finished")

\* the encoder goes out of scope: drop calls finish
EncoderDrop ==
  /\ pc \in {"open", "finished", "panicked"}
  /\ Finished("drop", "dropped")

NextEncoder ==
  \/ \E k \in 0..MaxData : EncoderWriteAll(k)
  \/ EncoderFinish
  \/ EncoderDrop

SpecEncoder == InitEncoder /\ [][NextEncoder]_vars

\* RFC 4648, section 4: the character of a 6-bit value
Alphabet(v) ==
  IF v < 26 THEN 65 + v
  ELSE IF v < 52 THEN 97 + (v - 26)
  ELSE IF v < 62 THEN 48 + (v - 52)
  ELSE IF v = 62 THEN 43 ELSE 47
\* the four characters of a 24-bit group
Quantum(n) ==
  <<Alphabet(n \div 262144), Alphabet((n \div 4096) % 64),
    Alphabet((n \div 64) % 64), Alphabet(n % 64)>>
\* the encoding of a byte sequence, with '=' padding
RECURSIVE Rfc4648(_)
Rfc4648(bytes) ==
  IF bytes = <<>> THEN <<>>
  ELSE IF Len(bytes) = 1
    THEN SubSeq(Quantum(bytes[1] * 65536), 1, 2) \o <<61, 61>>
  ELSE IF Len(bytes) = 2
    THEN SubSeq(Quantum(bytes[1] * 65536 + bytes[2] * 256), 1, 3) \o <<61>>
  ELSE Quantum(bytes[1] * 65536 + bytes[2] * 256 + bytes[3])
         \o Rfc4648(SubSeq(bytes, 4, Len(bytes)))
\* the number of '=' characters at the end
RECURSIVE TrailingEquals(_)
TrailingEquals(text) ==
  IF text # <<>> /\ text[Len(text)] = 61
    THEN 1 + TrailingEquals(SubSeq(text, 1, Len(text) - 1))
    ELSE 0

\* C24: once the bytes S, of length n, have been written in any split into
\* write_all calls and the encoder has been finished or dropped, the inner
\* writer holds the RFC 4648 encoding of S: 4 * ceil(n / 3) characters, the
\* last (3 - n mod 3) mod 3 of them '=', and nothing for no input
C24_Encoding ==
  pc \in {"finished", "dropped"} =>
    /\ base = Rfc4648(slice(input, 0, written))
    /\ Len(base) = 4 * ((written + 2) \div 3)
    /\ TrailingEquals(base) = (3 - (written % 3)) % 3
    /\ written = 0 => base = <<>>
    /\ ~ctx.writer.some

\* all the bytes of "hello" repeated were written and the encoder was
\* finished: the text begins "aGVsbG9" and has 4 * ceil(n / 3) characters
C24_Witness ==
  /\ pc = "finished"
  /\ written = MaxData
  /\ input[1] = 104
  /\ ret.op = "finish"
  /\ Len(base) = 4 * ((MaxData + 2) \div 3)
  /\ SubSeq(base, 1, 7) = <<97, 71, 86, 115, 98, 71, 57>>

(***************************************************************************)
(* C31.  Offset and length.  After writes totalling n bytes, in whatever   *)
(* slices, the offset of each engine's accumulator is 0 if n = 0 and       *)
(* ((n - 1) mod 64) + 1 otherwise: it never exceeds 64 and is 0 only       *)
(* before the first byte.  Until compute is called the number of blocks    *)
(* the engine has compressed is 0 if n = 0 and (n - 1) div 64 otherwise.   *)
(* compute leaves the offset as it was.                                    *)
(***************************************************************************)
OffsetAfter(n) == IF n = 0 THEN 0 ELSE ((n - 1) % CHUNK_BYTE_SIZE) + 1
BlocksAfter(n) == IF n = 0 THEN 0 ELSE (n - 1) \div CHUNK_BYTE_SIZE

C31_OffsetRelation ==
  \A e \in Engines :
    /\ Eng(e).buf_seed = OffsetAfter(written)
    /\ Eng(e).buf_seed <= CHUNK_BYTE_SIZE
    /\ (Eng(e).buf_seed = 0) <=> (written = 0)
    /\ pc = "open" => Len(Blocks(e)) = BlocksAfter(written)

\* two blocks' worth written: one block compressed, the other still buffered
C31_Witness ==
  /\ pc = "open"
  /\ ret.op = "write"
  /\ written = 2 * CHUNK_BYTE_SIZE
  /\ \A e \in Engines : Eng(e).buf_seed = CHUNK_BYTE_SIZE /\ Len(Blocks(e)) = 1

(***************************************************************************)
(* C32.  The generic engine refines the standalone one.  After every step  *)
(* (construction, each write, compute) the Writer built with               *)
(* Endian::Little has passed to compress exactly the blocks md5::Context   *)
(* has passed to eat_chunk, the same blocks in the same order and the same *)
(* number of them in the last call, and the two hold the same offset, the  *)
(* same byte counter and the same buffered bytes below the offset.         *)
(***************************************************************************)
C32_Refinement ==
  /\ writers["MD5"].endian = "Little"
  /\ writers["MD5"].hasher = ctx.eaten
  /\ writers["MD5"].probe = ctx.probe
  /\ writers["MD5"].buf_seed = ctx.buf_seed
  /\ writers["MD5"].data_bytes_len = ctx.data_bytes_len
  /\ writers["MD5"].panicked = ctx.panicked
  /\ pc = "open" =>
       slice(writers["MD5"].buf, 0, ctx.buf_seed) = slice(ctx.buf, 0, ctx.buf_seed)

\* blocks were compressed during the writes and two more by compute
C32_Witness ==
  /\ pc = "done"
  /\ written = 2 * CHUNK_BYTE_SIZE
  /\ Len(ctx.eaten) = 3
  /\ Len(ctx.probe) = 2
  /\ writers["MD5"].hasher = ctx.eaten

(***************************************************************************)
(* C35.  finish is idempotent.  The first call of finish, made explicitly  *)
(* or by Drop, takes the writer and gives it the padded final group when 1 *)
(* or 2 bytes are buffered, and nothing when none is.  Every later call,   *)
(* explicit or by Drop, returns Ok and leaves the inner writer's content   *)
(* and the encoder as they were: the final group is never emitted twice.   *)
(***************************************************************************)
\* the padded group of the bytes left over after the whole groups of bytes
FinalGroup(bytes) ==
  Rfc4648(slice(bytes, Len(bytes) - (Len(bytes) % INPUT_CHUNK_BYTE_SIZE), Len(bytes)))

C35_FinishOnce ==
  [][ret'.op \in {"finish", "drop"} =>
       /\ ret'.val.ok
       /\ ~ctx'.writer.some
       /\ pc = "open" =>
            /\ ctx.writer.some
            /\ base' = base \o FinalGroup(slice(input, 0, written))
       /\ pc # "open" =>
            /\ base' = base
            /\ ctx' = ctx]_vars

\* a second call of finish, by Drop after an explicit finish that emitted
\* a group with one '='
C35_Witness ==
  /\ pc = "dropped"
  /\ ret.op = "drop"
  /\ ret.val.again
  /\ ~ctx.panicked
  /\ written % INPUT_CHUNK_BYTE_SIZE = 2
  /\ TrailingEquals(base) = 1
  /\ Len(base) = OUTPUT_CHUNK_BYTE_SIZE * ((written + 2) \div INPUT_CHUNK_BYTE_SIZE)

(***************************************************************************)
(* The line wrapper called directly: each step is one call of              *)
(* NewLiner::write with the next k bytes of the input, k = 0 included, on  *)
(* an inner writer that accepts every byte it is given.                    *)
(***************************************************************************)
LinerWrite(k) ==
  /\ pc = "open"
  /\ written + k <= Len(input)
  /\ LET w == NewLiner_write(ctx, slice(input, written, written + k), MaxText)
     IN  /\ ctx' = w.self
         /\ ret' = [op |-> "write", val |-> [res |-> "Ok", n |-> w.ret.n, len |-> k]]
         /\ written' = written + w.ret.n
  /\ UNCHANGED <<input, base, writers, pc>>

NextLinerWrite == \E k \in 0..MaxText : LinerWrite(k)

SpecLinerWrite == InitLiner /\ [][NextLinerWrite]_vars

(***************************************************************************)
(* C36.  The line wrapper never ends a text with a separator: after any    *)
(* sequence of write calls, calls with an empty buffer included, the       *)
(* output is the bytes accepted so far with a line feed only immediately   *)
(* before a data byte, so it does not end with a separator and has no      *)
(* empty line.                                                             *)
(***************************************************************************)
C36_SeparatorBeforeData ==
  pc = "open" => ctx.writer = Wrapped(written, ctx.line_size)

\* a call with an empty buffer on a full line: the output ends with the
\* separator, no data byte after it
C36_TrailingSeparator ==
  /\ pc = "open"
  /\ ret.op = "write" /\ ret.val.len = 0
  /\ written > 0
  /\ ctx.seed = 0
  /\ ctx.writer = Wrapped(written, ctx.line_size) \o NEW_LINE

(***************************************************************************)
(* base64.rs: exec without --decode.  The Encoder is built over a NewLiner *)
(* of line size 76 over standard output; io::copy hands what it reads to   *)
(* the encoder with write_all; then finish, then println!("").  The        *)
(* encoder's writer is the NewLiner; standard output accepts at most       *)
(* accept bytes of a call.                                                 *)
(***************************************************************************)
LINE_SIZE == 76

\* a faulty variant of Encoder::write: the group is handed over with one
\* call of write, whatever it accepts
Piped_write_once(self, buf, accept) ==
  IF ~self.writer.some THEN [self |-> [self EXCEPT !.panicked = TRUE], ret |-> Panic]
  ELSE LET taken == write_buf(self, buf)
           encoded == [encode(taken.self) EXCEPT !.buf_seed = 0]
           sent == NewLiner_write(self.writer.val, encoded.encode_data, accept)
       IN  IF is_buf_full(taken.self)
             THEN [self |-> [encoded EXCEPT !.writer = Some(sent.self)],
                   ret |-> Ok(taken.n)]
             ELSE [self |-> taken.self, ret |-> Ok(taken.n)]

\* Encoder::write when the writer is a NewLiner
Piped_write(self, buf, accept) ==
  IF ~self.writer.some THEN [self |-> [self EXCEPT !.panicked = TRUE], ret |-> Panic]
  ELSE LET taken == write_buf(self, buf)
           encoded == [encode(taken.self) EXCEPT !.buf_seed = 0]
           sent == NewLiner_write_all(self.writer.val, encoded.encode_data, accept)
       IN  IF is_buf_full(taken.self)
             THEN [self |-> [encoded EXCEPT !.writer = Some(sent.self)],
                   ret |-> IF sent.res = "Ok" THEN Ok(taken.n) ELSE [ok |-> FALSE, n |-> 0]]
             ELSE [self |-> taken.self, ret |-> Ok(taken.n)]

\* write_all on that encoder
RECURSIVE Piped_write_all(_, _, _)
Piped_write_all(self, buf, accept) ==
  IF buf = <<>> THEN [self |-> self, ret |-> Ok(0)]
  ELSE LET w == Piped_write(self, buf, accept)
       IN  IF ~w.ret.ok THEN w
           ELSE Piped_write_all(w.self, slice(buf, w.ret.n, Len(buf)), accept)

\* Encoder::finish when the writer is a NewLiner: the encoder afterwards and
\* what standard output holds; out is what it held when the writer had been
\* taken before
Piped_finish(self, out, accept) ==
  IF ~self.writer.some THEN [self |-> self, out |-> out]
  ELSE IF self.buf_seed # 0
    THEN LET buf_free_size == INPUT_CHUNK_BYTE_SIZE - self.buf_seed
             padded == [self EXCEPT !.buf = clone_from_slice(@, self.buf_seed,
                                              slice(base64_PADDING, 0, buf_free_size))]
             encoded == [encode(padded) EXCEPT !.buf_seed = 0]
             marked == [encoded EXCEPT !.encode_data =
                          [i \in 1..OUTPUT_CHUNK_BYTE_SIZE |->
                             IF i > OUTPUT_CHUNK_BYTE_SIZE - buf_free_size
                               THEN 61 ELSE @[i]]]
             sent == NewLiner_write_all(self.writer.val, marked.encode_data, accept)
         IN  [self |-> [marked EXCEPT !.writer = None], out |-> sent.self.writer]
  ELSE [self |-> [self EXCEPT !.writer = None], out |-> self.writer.val.writer]

\* longest input of the pipeline: two full lines of text and a group more
MaxPipe == 115
\* how much one read of io::copy returns: less than a group, a group, one
\* byte short of a line of text, a line of text
PipeReads == {1, 2, INPUT_CHUNK_BYTE_SIZE, 56, 57}
PipeAccepts == {1, 3, LINE_SIZE}
PipeInputs ==
  {[i \in 1..n |-> (i * 37 + 91) % 256] : n \in {0, 1, 56, MaxPipe - 1, MaxPipe}}
    \cup {[i \in 1..MaxPipe |-> 255]}

InitPipe ==
  /\ input \in PipeInputs
  /\ written = 0
  /\ base = <<>>
  /\ writers = [MD5 |-> hash_md5_writer, SHA256 |-> hash_sha256_writer]
  /\ ctx = Encoder_new(with_line_size(LINE_SIZE, <<>>))
  /\ pc = "copy"
  /\ ret = [op |-> "new", val |-> <<>>]

\* one round of io::copy: k bytes are read and written with write_all
PipeCopy(k, accept) ==
  /\ pc = "copy"
  /\ written + k <= Len(input)
  /\ LET w == Piped_write_all(ctx, slice(input, written, written + k), accept)
     IN  /\ ctx' = w.self
         /\ base' = w.self.writer.val.writer
         /\ ret' = [op |-> "write_all", val |-> [ok |-> w.ret.ok, n |-> k]]
  /\ written' = written + k
  /\ UNCHANGED <<input, writers, pc>>

\* the input is at its end: encoder.finish() and println!("")
PipeFinish(accept) ==
  /\ pc = "copy"
  /\ written = Len(input)
  /\ LET f == Piped_finish(ctx, base, accept)
     IN  /\ ctx' = f.self
         /\ base' = f.out \o NEW_LINE
  /\ pc' = "printed"
  /\ ret' = [op |-> "finish", val |-> [ok |-> TRUE, n |-> 0]]
  /\ UNCHANGED <<input, written, writers>>

NextPipe ==
  \/ \E k \in PipeReads, accept \in PipeAccepts : PipeCopy(k, accept)
  \/ \E accept \in PipeAccepts : PipeFinish(accept)

SpecPipe == InitPipe /\ [][NextPipe]_vars

\* text cut into lines of L characters, a line feed between two lines
RECURSIVE WrapText(_, _)
WrapText(text, L) ==
  IF Len(text) <= L THEN text
  ELSE SubSeq(text, 1, L) \o NEW_LINE \o WrapText(SubSeq(text, L + 1, Len(text)), L)
\* text without its line feeds
Unwrapped(text) == SelectSeq(text, LAMBDA c : c # 10)
\* the base64 characters
IsBase64Char(c) == c = 61 \/ c \in {CODE_VEC[i] : i \in 1..64}

(***************************************************************************)
(* C37.  The base64 pipeline.  However the input is cut into reads and     *)
(* however much of a call standard output accepts, what the NewLiner has   *)
(* written is, during the copy, the encoding of the whole groups of the    *)
(* bytes copied so far and, after finish, the RFC 4648 encoding of the     *)
(* input, in lines of exactly 76 base64 characters except the last, which  *)
(* holds 1..76 (no line at all for no input): no character is lost or      *)
(* written twice.  println then ends the last line.                        *)
(***************************************************************************)
C37_Pipeline ==
  LET copied == slice(input, 0, written)
      whole == slice(copied, 0, written - (written % INPUT_CHUNK_BYTE_SIZE))
      text == IF pc = "copy" THEN Rfc4648(whole) ELSE Rfc4648(input)
      out == IF pc = "copy" THEN base ELSE SubSeq(base, 1, Len(base) - 1)
      lines == (Len(text) + LINE_SIZE - 1) \div LINE_SIZE
  IN  /\ out = WrapText(text, LINE_SIZE)
      /\ Unwrapped(out) = text
      /\ \A i \in 1..Len(out) :
           IF i % (LINE_SIZE + 1) = 0 THEN out[i] = 10 ELSE IsBase64Char(out[i])
      /\ Len(out) = Len(text) + (IF lines = 0 THEN 0 ELSE lines - 1)
      /\ lines > 0 => Len(text) - (lines - 1) * LINE_SIZE \in 1..LINE_SIZE
      /\ pc = "printed" => base[Len(base)] = 10 /\ ~ctx.writer.some

\* the longest input went through and the encoder was finished: two lines
\* of 76 characters and a last line of the padded group
C37_Witness ==
  /\ pc = "printed"
  /\ Len(input) = MaxPipe
  /\ written = MaxPipe
  /\ Len(base) = 2 * (LINE_SIZE + 1) + OUTPUT_CHUNK_BYTE_SIZE + 1
  /\ base[LINE_SIZE + 1] = 10
  /\ base[2 * (LINE_SIZE + 1)] = 10
  /\ base[Len(base) - 1] = 61

(***************************************************************************)
(* Create and check.  A path and a digest are printed by print_file, in    *)
(* GNU or in BSD style, by hash.rs for either algorithm or by md5.rs, and  *)
(* the line printed, without the "\n" println ends it with, is given to    *)
(* the checksum-line parser of the same program and algorithm.  input is   *)
(* the path, base the digest, written the text printed.                    *)
(***************************************************************************)
\* md5.rs: parse_checksum_line
md5_parse_checksum_line(l) ==
  IF GNU_STYLE_RE(32, l).matched
    THEN checksum_line_digest(GNU_STYLE_RE(32, l).g2,
                              md5_Digest_from_str(GNU_STYLE_RE(32, l).g1), "MD5")
  ELSE IF BSD_STYLE_RE(NameMd5, 32, l).matched
    THEN checksum_line_digest(BSD_STYLE_RE(NameMd5, 32, l).g1,
                              md5_Digest_from_str(BSD_STYLE_RE(NameMd5, 32, l).g2), "MD5")
  ELSE TErr("fail to parse line")

\* "file", "a b.txt", "-", " a", "\ta", "  ", "a ", "a)", "a) = b", ") = ",
\* "a = b", "(a)", "MD5 (a) = b", and a path that is not UTF-8
RoundTripPaths ==
  {PathFile, <<97, 32, 98, 46, 116, 120, 116>>, Dash, <<32, 97>>, <<9, 97>>,
   <<32, 32>>, <<97, 32>>, <<97, 41>>, <<97, 41, 32, 61, 32, 98>>, <<41, 32, 61, 32>>,
   <<97, 32, 61, 32, 98>>, <<40, 97, 41>>,
   NameMd5 \o <<32, 40, 97, 41, 32, 61, 32, 98>>, PathRaw}

InitRoundTrip ==
  /\ input \in RoundTripPaths
  /\ written = <<>>
  /\ ctx \in [prog : {"hash", "md5"}, algo : Func, is_bsd : {FALSE}]
  /\ ctx.prog = "md5" => ctx.algo = "MD5"
  /\ base \in FileDigests(ctx.algo)
  /\ writers = [MD5 |-> hash_md5_writer, SHA256 |-> hash_sha256_writer]
  /\ pc = "new"
  /\ ret = [op |-> "new", val |-> <<>>]

\* hash.rs: print_file
PrintFile(is_bsd) ==
  /\ pc = "new"
  /\ ctx.prog = "hash"
  /\ written' = print_file(input, ctx.algo, base, is_bsd)
  /\ ctx' = [ctx EXCEPT !.is_bsd = is_bsd]
  /\ pc' = "printed"
  /\ ret' = [op |-> "print_file", val |-> <<>>]
  /\ UNCHANGED <<input, base, writers>>

\* md5.rs: print_file
Md5PrintFile(is_bsd) ==
  /\ pc = "new"
  /\ ctx.prog = "md5"
  /\ written' = md5_print_file(input, base, is_bsd)
  /\ ctx' = [ctx EXCEPT !.is_bsd = is_bsd]
  /\ pc' = "printed"
  /\ ret' = [op |-> "print_file", val |-> <<>>]
  /\ UNCHANGED <<input, base, writers>>

\* the line printed, as a line of a checksum file
PrintedLine == SubSeq(written, 1, Len(written) - 1)

\* the parser of the program and algorithm that printed the line
ParsePrinted ==
  /\ pc = "printed"
  /\ ret' = [op |-> "parse",
             val |-> IF ctx.prog = "md5" THEN md5_parse_checksum_line(PrintedLine)
                     ELSE IF ctx.algo = "MD5" THEN parse_md5_checksum_line(PrintedLine)
                     ELSE parse_sha256_checksum_line(PrintedLine)]
  /\ pc' = "parsed"
  /\ UNCHANGED <<input, written, base, writers, ctx>>

NextRoundTrip ==
  \/ \E is_bsd \in BOOLEAN : PrintFile(is_bsd)
  \/ \E is_bsd \in BOOLEAN : Md5PrintFile(is_bsd)
  \/ ParsePrinted

SpecRoundTrip == InitRoundTrip /\ [][NextRoundTrip]_vars

(***************************************************************************)
(* C34.  Create/check round trip: for every non-empty path without a line  *)
(* break and every digest, the line print_file prints, in GNU style and in *)
(* BSD style, is parsed by the parser of the same algorithm back to the    *)
(* same path and the same digest, paths that begin with whitespace or      *)
(* contain ')' or ' = ' included.                                          *)
(***************************************************************************)
C34_RoundTrip ==
  pc = "parsed" =>
    /\ ret.val.res = "Ok"
    /\ ret.val.val.path = input
    /\ ret.val.val.digest.bytes = base

\* the GNU line of the path " a" was parsed: the digest came back, the path
\* came back as "a"
C34_LeadingSpaceLost ==
  /\ pc = "parsed"
  /\ ~ctx.is_bsd
  /\ input = <<32, 97>>
  /\ ret.val.res = "Ok"
  /\ ret.val.val.digest.bytes = base
  /\ ret.val.val.path = <<97>>

(***************************************************************************)
(* Arithmetic that can trap.  In a build with overflow checks `+` on u32   *)
(* panics when the sum passes 2^32 - 1, `-` on usize when the result is    *)
(* negative, and << and >> on u32 when the shift count is 32 or more.      *)
(***************************************************************************)
\* x + y on u32 passes 2^32 - 1
u32_add_overflows(x, y) == x[1] + y[1] + ((x[2] + y[2]) \div 65536) > 65535
\* x << s or x >> s on u32 traps
shift_overflows(s) == s >= 32
\* (x << s) | (x >> (32 - s)) and (x >> s) | (x << (32 - s)) trap
rotate_traps(s) == shift_overflows(s) \/ 32 - s < 0 \/ shift_overflows(32 - s)

\* the terms of as_u32_le and of as_u32_be, in the order they are added
as_u32_le_terms(bytes) ==
  <<u32_from_byte(bytes[1], 0), u32_from_byte(bytes[2], 1),
    u32_from_byte(bytes[3], 2), u32_from_byte(bytes[4], 3)>>
as_u32_be_terms(bytes) ==
  <<u32_from_byte(bytes[1], 3), u32_from_byte(bytes[2], 2),
    u32_from_byte(bytes[3], 1), u32_from_byte(bytes[4], 0)>>
\* one of the three additions of t[1] + t[2] + t[3] + t[4] passes 2^32 - 1
sum_overflows(t) ==
  \/ u32_add_overflows(t[1], t[2])
  \/ u32_add_overflows(u32_wrapping_add(t[1], t[2]), t[3])
  \/ u32_add_overflows(u32_wrapping_add(u32_wrapping_add(t[1], t[2]), t[3]), t[4])
\* no bit is set in two of the terms
disjoint_bits(t) ==
  \A j, k \in 1..4 : j < k => u32_and(t[j], t[k]) = W(0, 0)

\* the rotation amounts of the calls of left_rotate in round i of eat_chunk,
\* of right_rotate in a round of compress and in a step of get_words
md5_round_rotations(i) == <<S[i + 1]>>
sha256_round_rotations == <<6, 11, 25, 2, 13, 22>>
get_words_rotations == <<7, 18, 17, 19>>

(***************************************************************************)
(* One compression, step by step: the words of the block are made, the 64  *)
(* rounds are run one at a time and the result is added to the state.      *)
(* input is the block, base the state before, ctx the algorithm, the words *)
(* and the temporaries, written the loop counter.  ret tells what the step *)
(* did: the rotation amounts of its rotate calls and the 4-byte groups it  *)
(* turned into words.                                                      *)
(***************************************************************************)
\* blocks of 0xff, of zeros, the final block of the empty input, the first
\* block of InMix, and a block with every byte value from 0xc0 on
CompressBlocks ==
  {[i \in 1..CHUNK_BYTE_SIZE |-> 255], [i \in 1..CHUNK_BYTE_SIZE |-> 0],
   [i \in 1..CHUNK_BYTE_SIZE |-> IF i = 1 THEN 128 ELSE 0],
   slice(InMix, 0, CHUNK_BYTE_SIZE),
   [i \in 1..CHUNK_BYTE_SIZE |-> 191 + i]}
\* the initial state and a state of all ones
CompressStates(algo) ==
  IF algo = "MD5" THEN {<<A0, B0, C0, D0>>, [j \in 1..4 |-> W(65535, 65535)]}
  ELSE {sha256_Context_new, [j \in 1..8 |-> W(65535, 65535)]}
Groups(block) == {Group(block, k) : k \in 0..15}

InitCompress ==
  /\ input \in CompressBlocks
  /\ written = 0
  /\ ctx \in [algo : Func, words : {<<>>}, t : {<<>>}]
  /\ base \in CompressStates(ctx.algo)
  /\ writers = [MD5 |-> hash_md5_writer, SHA256 |-> hash_sha256_writer]
  /\ pc = "block"
  /\ ret = [op |-> "new", val |-> [rotations |-> <<>>, groups |-> {}]]

\* md5.rs eat_chunk: split_words and the temporaries
SplitWords ==
  /\ pc = "block"
  /\ ctx.algo = "MD5"
  /\ ctx' = [ctx EXCEPT !.words = split_words(input),
                        !.t = [i |-> 0, a |-> base[1], b |-> base[2],
                               c |-> base[3], d |-> base[4]]]
  /\ pc' = "rounds"
  /\ ret' = [op |-> "split_words",
             val |-> [rotations |-> <<>>, groups |-> Groups(input)]]
  /\ UNCHANGED <<input, written, base, writers>>

\* sha256.rs compress: get_words and the working variables
GetWords ==
  /\ pc = "block"
  /\ ctx.algo = "SHA256"
  /\ ctx' = [ctx EXCEPT !.words = get_words(input),
                        !.t = [i |-> 0, a |-> base[1], b |-> base[2], c |-> base[3],
                               d |-> base[4], e |-> base[5], f |-> base[6],
                               g |-> base[7], h |-> base[8]]]
  /\ pc' = "rounds"
  /\ ret' = [op |-> "get_words",
             val |-> [rotations |-> get_words_rotations, groups |-> Groups(input)]]
  /\ UNCHANGED <<input, written, base, writers>>

\* one iteration of for i in 0usize..64 of eat_chunk
Md5Round ==
  /\ pc = "rounds"
  /\ ctx.algo = "MD5"
  /\ written < 64
  /\ ctx' = [ctx EXCEPT !.t = md5_round(ctx.t, ctx.words)]
  /\ written' = written + 1
  /\ ret' = [op |-> "round",
             val |-> [rotations |-> md5_round_rotations(written), groups |-> {}]]
  /\ UNCHANGED <<input, base, writers, pc>>

\* one iteration of for i in 0..64 of compress
Sha256Round ==
  /\ pc = "rounds"
  /\ ctx.algo = "SHA256"
  /\ written < 64
  /\ ctx' = [ctx EXCEPT !.t = sha256_round(ctx.t, ctx.words)]
  /\ written' = written + 1
  /\ ret' = [op |-> "round",
             val |-> [rotations |-> sha256_round_rotations, groups |-> {}]]
  /\ UNCHANGED <<input, base, writers, pc>>

\* the wrapping additions to the state after the loop
AddState ==
  /\ pc = "rounds"
  /\ written = 64
  /\ pc' = "compressed"
  /\ ret' = [op |-> "compress",
             val |-> [rotations |-> <<>>, groups |-> {},
                      state |-> IF ctx.algo = "MD5"
                                  THEN <<u32_wrapping_add(base[1], ctx.t.a),
                                         u32_wrapping_add(base[2], ctx.t.b),
                                         u32_wrapping_add(base[3], ctx.t.c),
                                         u32_wrapping_add(base[4], ctx.t.d)>>
                                  ELSE <<u32_wrapping_add(ctx.t.a, base[1]),
                                         u32_wrapping_add(ctx.t.b, base[2]),
                                         u32_wrapping_add(ctx.t.c, base[3]),
                                         u32_wrapping_add(ctx.t.d, base[4]),
                                         u32_wrapping_add(ctx.t.e, base[5]),
                                         u32_wrapping_add(ctx.t.f, base[6]),
                                         u32_wrapping_add(ctx.t.g, base[7]),
                                         u32_wrapping_add(ctx.t.h, base[8])>>]]
  /\ UNCHANGED <<input, written, base, writers, ctx>>

NextCompress == SplitWords \/ GetWords \/ Md5Round \/ Sha256Round \/ AddState

SpecCompress == InitCompress /\ [][NextCompress]_vars

(***************************************************************************)
(* C38.  Arithmetic safety of the compression functions.  Every call of    *)
(* left_rotate and right_rotate made by MD5 or SHA-256 has a rotation      *)
(* amount in 1..31, so neither of its shifts has a count of 32; as_u32_le  *)
(* and as_u32_be add four values with disjoint bits and never pass         *)
(* 2^32 - 1, and give the word the wrapping sum gives; the other additions *)
(* wrap: the step-by-step compression ends with the state compress gives   *)
(* in one go, for every block and state tried.                             *)
(***************************************************************************)
C38_NoTrap ==
  /\ \A j \in 1..Len(ret.val.rotations) :
       /\ ret.val.rotations[j] \in 1..31
       /\ ~rotate_traps(ret.val.rotations[j])
  /\ \A g \in ret.val.groups :
       LET t == IF ctx.algo = "MD5" THEN as_u32_le_terms(g) ELSE as_u32_be_terms(g)
       IN  /\ disjoint_bits(t)
           /\ ~sum_overflows(t)
           /\ (IF ctx.algo = "MD5" THEN as_u32_le(g) ELSE as_u32_be(g))
                = W(t[1][1] + t[2][1] + t[3][1] + t[4][1],
                    t[1][2] + t[2][2] + t[3][2] + t[4][2])
  /\ pc = "compressed" =>
       ret.val.state =
         IF ctx.algo = "MD5"
           THEN LET e == eat_chunk([Context_new EXCEPT !.buf = input,
                                      !.a_s = base[1], !.b_s = base[2],
                                      !.c_s = base[3], !.d_s = base[4]])
                IN  <<e.a_s, e.b_s, e.c_s, e.d_s>>
           ELSE sha256_compress(base, input)

\* the last round of MD5 on the block of 0xff from the state of all ones:
\* it rotates by 21
C38_Witness ==
  /\ pc = "rounds"
  /\ ctx.algo = "MD5"
  /\ input[1] = 255 /\ input[CHUNK_BYTE_SIZE] = 255
  /\ base[1] = W(65535, 65535)
  /\ written = 64
  /\ ret.op = "round"
  /\ ret.val.rotations = <<21>>
  /\ ctx.words[1] = W(65535, 65535)

(***************************************************************************)
(* hash.rs: Hash::check, and md5.rs: MD5::check.  A checksum file is read  *)
(* line by line with io::BufReader::lines; each line goes to check_line,   *)
(* which parses it, digests the file it names and compares.  A run is what *)
(* the command has counted and said so far; hangs tells that it cannot     *)
(* come to an end.                                                         *)
(*                                                                         *)
(* Input::Stdin holds io::stdin().lock(), and the lock of standard input   *)
(* is not reentrant.  While the checksum lines are read from standard      *)
(* input the reader holds it (locked), and a line that makes Input::new    *)
(* select standard input takes it again: the thread waits for itself.      *)
(*                                                                         *)
(* The failures of a checksum file are counted by fold(0, |acc, err| ..    *)
(* acc + 1) in an i32.  checked tells that the build checks arithmetic     *)
(* overflow (cargo's dev profile): acc + 1 then panics at i32::MAX, and    *)
(* wraps otherwise.                                                        *)
(***************************************************************************)
I32_MAX == (2^30 - 1) + 2^30
\* the position of the first "\n" of bytes, 0 when there is none
first_newline(bytes) ==
  IF \E i \in 1..Len(bytes) : bytes[i] = 10
    THEN CHOOSE i \in 1..Len(bytes) : bytes[i] = 10 /\ \A j \in 1..(i - 1) : bytes[j] # 10
    ELSE 0
\* what read_line makes of the bytes up to and including a "\n", or up to
\* the end: InvalidData when they are no UTF-8, else the str without the
\* "\n" and without a "\r" before it
read_line(bytes) ==
  LET n == Len(bytes)
      cut == IF n >= 1 /\ bytes[n] = 10
               THEN IF n >= 2 /\ bytes[n - 1] = 13 THEN n - 2 ELSE n - 1
               ELSE n
  IN  IF to_str(bytes).some THEN TOk(SubSeq(bytes, 1, cut))
      ELSE TErr(io_Error("InvalidData"))
\* io::BufRead::lines over bytes that can be read
RECURSIVE lines(_)
lines(bytes) ==
  IF bytes = <<>> THEN <<>>
  ELSE IF first_newline(bytes) = 0 THEN <<read_line(bytes)>>
  ELSE <<read_line(SubSeq(bytes, 1, first_newline(bytes)))>>
         \o lines(SubSeq(bytes, first_newline(bytes) + 1, Len(bytes)))

\* what check_line returns, what is left of standard input and what it
\* printed after the name
Verdict(res, stdin, said) == [res |-> res, stdin |-> stdin, said |-> said]

\* hash.rs: check_line from the match on the hash_file function on;
\* expected is what the parser returned, actual what the hash_file function
\* returned
check_line_compare(expected, actual, stdin) ==
  IF actual.res = "Panic" THEN Verdict("Panic", stdin, "none")
  ELSE IF actual.res = "Err" THEN Verdict("Err", actual.stdin, "FAILED open or read")
  ELSE IF actual.val # expected.digest.bytes THEN Verdict("Err", actual.stdin, "FAILED")
  ELSE Verdict("Ok", actual.stdin, "OK")

\* libs/input.rs: Input::new reaches io::stdin().lock() while the lock is
\* held
lock_blocks(file, fs, locked) ==
  /\ locked
  /\ Input_new(file, fs).res = "Ok"
  /\ Input_new(file, fs).val.variant = "Stdin"

\* hash.rs: check_line once the line has been parsed
check_line_parsed(parsed, algo, fs, stdin, locked) ==
  IF parsed.res # "Ok" THEN Verdict(parsed.res, stdin, "none")
  ELSE IF lock_blocks(parsed.val.path, fs, locked) THEN Verdict("Hangs", stdin, "none")
  ELSE CHOOSE c \in
         {check_line_compare(parsed.val, actual, stdin) :
            actual \in {hash_file_of(parsed.val.path, algo, fs, stdin)}} : TRUE

\* hash.rs: check_line; locked tells that the caller holds the lock of
\* standard input
check_line(l, algo, fs, stdin, locked) ==
  CHOOSE c \in
    {check_line_parsed(parsed, algo, fs, stdin, locked) :
       parsed \in {IF algo = "MD5" THEN parse_md5_checksum_line(l)
                   ELSE parse_sha256_checksum_line(l)}} : TRUE

\* the run of check so far: the failures counted for the file being read
\* and for the files before it, the rest of standard input, whether the
\* lock of standard input is held, what was said of each line in turn
Checking(stdin) ==
  [check_failed |-> 0, failed |-> 0, stdin |-> stdin, locked |-> FALSE, said |-> <<>>,
   panicked |-> FALSE, hangs |-> FALSE]

\* .fold(0, |acc, err| ..) over one result of check_line
check_counted(run, c) ==
  IF c.res = "Panic" THEN [run EXCEPT !.panicked = TRUE]
  ELSE IF c.res = "Hangs" THEN [run EXCEPT !.hangs = TRUE]
  ELSE [run EXCEPT !.check_failed = @ + (IF c.res = "Err" THEN 1 ELSE 0),
                   !.stdin = c.stdin,
                   !.said = Append(@, c.said)]

\* .map(|l| check_line(&l?, &algo)).filter_map(|x| x.err()).fold(..) on one
\* line: a line that could not be read is a failure
check_one(run, l, algo, fs) ==
  IF l.res = "Err"
    THEN [run EXCEPT !.check_failed = @ + 1, !.said = Append(@, "none")]
    ELSE CHOOSE next \in
           {check_counted(run, c) : c \in {check_line(l.val, algo, fs, run.stdin, run.locked)}} : TRUE

\* the lines in their order, until one of them panics or blocks
RECURSIVE check_lines(_, _, _, _)
check_lines(ls, algo, fs, run) ==
  IF ls = <<>> \/ run.panicked \/ run.hangs THEN run
  ELSE check_lines(Tail(ls), algo, fs, check_one(run, Head(ls), algo, fs))

\* the closure of the last fold of check: the warnings name the file with
\* f.to_str().unwrap(), which panics on a path that is not UTF-8
check_warned(f, run, open_failed) ==
  IF run.panicked \/ run.hangs THEN run
  ELSE IF (run.check_failed > 0 \/ open_failed > 0) /\ ~to_str(f).some
    THEN [run EXCEPT !.panicked = TRUE]
  ELSE [run EXCEPT !.failed = @ + run.check_failed + open_failed, !.check_failed = 0]

\* the fold over a reader whose reads fail (a directory): lines() returns
\* the error of the read on every call, l? makes a failure of each and the
\* fold counts them without an end.  With overflow checks the count
\* reaches i32::MAX and the next acc + 1 panics; without them it wraps and
\* the fold goes on.
fold_unreadable(run, checked) ==
  IF checked THEN [run EXCEPT !.check_failed = I32_MAX, !.panicked = TRUE]
  ELSE [run EXCEPT !.hangs = TRUE]

\* the closure of the map of check on one checksum file.  The input lives,
\* and with it the lock of an Input::Stdin, until the lines have been
\* folded.
Hash_check_file(f, algo, fs, run, checked) ==
  LET opened == Input_new(f, fs)
      read == read_to_end(opened.val, fs, run.stdin)
  IN  IF opened.res = "Err" THEN check_warned(f, run, 1)
      ELSE IF read.res = "Err" THEN fold_unreadable(run, checked)
      ELSE check_warned(f,
             [check_lines(lines(read.val), algo, fs,
                          [run EXCEPT !.stdin = read.stdin,
                                      !.locked = (opened.val.variant = "Stdin")])
                EXCEPT !.locked = FALSE], 0)

RECURSIVE Hash_check_loop(_, _, _, _, _)
Hash_check_loop(files, algo, fs, run, checked) ==
  IF files = <<>> \/ run.panicked \/ run.hangs THEN run
  ELSE Hash_check_loop(Tail(files), algo, fs,
                       Hash_check_file(Head(files), algo, fs, run, checked), checked)

\* what check returns once the files have been gone through
check_returned(run) ==
  [res |-> IF run.panicked THEN "Panic" ELSE IF run.hangs THEN "Hangs"
           ELSE IF run.failed > 0 THEN "Err" ELSE "Ok",
   val |-> IF ~run.panicked /\ ~run.hangs /\ run.failed > 0
             THEN Fails(run.failed) ELSE <<>>,
   said |-> run.said]

\* hash.rs: Hash::check
Hash_check(file, algo, fs, stdin, checked) ==
  check_returned(Hash_check_loop(unwrap_or_dash(file), algo, fs, Checking(stdin), checked))

\* helper.rs: Input::new reaches io::stdin().lock() while the lock is held
helper_lock_blocks(name, fs, locked) ==
  /\ locked
  /\ helper_Input_new(name, fs).res = "Ok"
  /\ helper_Input_new(name, fs).val.variant = "Stdin"

\* md5.rs: check_line once the line has been parsed
md5_check_line_parsed(parsed, fs, stdin, locked) ==
  IF parsed.res # "Ok" THEN Verdict(parsed.res, stdin, "none")
  ELSE IF helper_lock_blocks(parsed.val.path, fs, locked) THEN Verdict("Hangs", stdin, "none")
  ELSE CHOOSE c \in
         {check_line_compare(parsed.val, actual, stdin) :
            actual \in {hash_file(parsed.val.path, fs, stdin)}} : TRUE

\* md5.rs: check_line
md5_check_line(l, fs, stdin, locked) ==
  CHOOSE c \in
    {md5_check_line_parsed(parsed, fs, stdin, locked) :
       parsed \in {md5_parse_checksum_line(l)}} : TRUE

\* md5.rs: .map(|l| check_line(&l?)).filter_map(|x| x.err()).fold(..) on
\* one line
md5_check_one(run, l, fs) ==
  IF l.res = "Err"
    THEN [run EXCEPT !.check_failed = @ + 1, !.said = Append(@, "none")]
    ELSE CHOOSE next \in
           {check_counted(run, c) : c \in {md5_check_line(l.val, fs, run.stdin, run.locked)}} : TRUE

RECURSIVE md5_check_lines(_, _, _)
md5_check_lines(ls, fs, run) ==
  IF ls = <<>> \/ run.panicked \/ run.hangs THEN run
  ELSE md5_check_lines(Tail(ls), fs, md5_check_one(run, Head(ls), fs))

\* md5.rs: the closure of the map of check on one checksum file; Input::new
\* of helper.rs panics on a path that is not UTF-8
MD5_check_file(f, fs, run, checked) ==
  LET opened == helper_Input_new(f, fs)
      read == read_to_end(opened.val, fs, run.stdin)
  IN  IF opened.res = "Panic" THEN [run EXCEPT !.panicked = TRUE]
      ELSE IF opened.res = "Err" THEN check_warned(f, run, 1)
      ELSE IF read.res = "Err" THEN fold_unreadable(run, checked)
      ELSE check_warned(f,
             [md5_check_lines(lines(read.val), fs,
                              [run EXCEPT !.stdin = read.stdin,
                                          !.locked = (opened.val.variant = "Stdin")])
                EXCEPT !.locked = FALSE], 0)

RECURSIVE MD5_check_loop(_, _, _, _)
MD5_check_loop(files, fs, run, checked) ==
  IF files = <<>> \/ run.panicked \/ run.hangs THEN run
  ELSE MD5_check_loop(Tail(files), fs, MD5_check_file(Head(files), fs, run, checked), checked)

\* md5.rs: MD5::check
MD5_check(file, fs, stdin, checked) ==
  check_returned(MD5_check_loop(unwrap_or_dash(file), fs, Checking(stdin), checked))

(***************************************************************************)
(* Check mode.  input is the FILE arguments, base the file system, written *)
(* what standard input holds, ctx the algorithm and the lines the checksum *)
(* file was written with.  The checksum file is "sums", its bytes are also *)
(* at the path that is no UTF-8 and on standard input; the lines name      *)
(* "file", which holds "abc" or is absent, "a b.txt", which is absent, or  *)
(* "-", which no file system here holds: standard input.  When a line      *)
(* names "-" standard input may also hold nothing.  ctx.checked is the     *)
(* build: with checks of arithmetic overflow, or without.                  *)
(***************************************************************************)
\* "sums"
PathSums == <<115, 117, 109, 115>>
PathAbsent == <<97, 32, 98, 46, 116, 120, 116>>
\* the digest of "abc"
DigestAbc(algo) ==
  IF algo = "MD5"
    THEN <<144, 1, 80, 152, 60, 210, 79, 176, 214, 150, 63, 125, 40, 225, 127, 114>>
    ELSE <<186, 120, 22, 191, 143, 1, 207, 234, 65, 65, 64, 222, 93, 174, 34, 35, 176, 3, 97, 163, 150, 23, 122, 156, 180, 16, 255, 97, 242, 0, 21, 173>>
\* the digest of no bytes
DigestNone(algo) ==
  IF algo = "MD5"
    THEN <<212, 29, 140, 217, 143, 0, 178, 4, 233, 128, 9, 152, 236, 248, 66, 126>>
    ELSE <<227, 176, 196, 66, 152, 252, 28, 20, 154, 251, 244, 200, 153, 111, 185, 36, 39, 174, 65, 228, 100, 155, 147, 76, 164, 149, 153, 27, 120, 82, 184, 85>>
DigestSize(algo) == IF algo = "MD5" THEN md5_DIGEST_BYTE_SIZE ELSE sha256_DIGEST_BYTE_SIZE

\* the lines of a checksum file: "file" with the digest of "abc" in either
\* layout, "file" with another digest, a path that is absent, a line that
\* is no checksum line, an empty line, a line whose digest field has the
\* letters g for digits, and "-" with the digest of no bytes
LineGood(algo) == GnuLine(LineText(algo, DigestAbc(algo)), TwoSpaces, PathFile)
LineGoodBsd(algo) == BsdLine(AlgoName(algo), PathFile, LineText(algo, DigestAbc(algo)))
LineOther(algo) ==
  GnuLine(LineText(algo, DigestRamp(DigestSize(algo), 10)), TwoSpaces, PathFile)
LineAbsent(algo) == GnuLine(LineText(algo, DigestAbc(algo)), TwoSpaces, PathAbsent)
LineJunk == PathFile
LineLetters(algo) == GnuLine(Letters(2 * DigestSize(algo)), TwoSpaces, PathFile)
LineDash(algo) == GnuLine(LineText(algo, DigestNone(algo)), TwoSpaces, Dash)
SumsLines(algo) ==
  {<<>>,
   <<LineGood(algo)>>, <<LineGoodBsd(algo)>>, <<LineOther(algo)>>, <<LineAbsent(algo)>>,
   <<LineJunk>>, <<<<>>>>, <<LineLetters(algo)>>, <<LineDash(algo)>>,
   <<LineGood(algo), LineDash(algo)>>,
   <<LineGood(algo), LineGoodBsd(algo)>>, <<LineOther(algo), LineGood(algo)>>,
   <<LineJunk, LineGood(algo)>>, <<LineOther(algo), LineAbsent(algo)>>,
   <<LineGood(algo), LineLetters(algo)>>, <<LineLetters(algo), LineGood(algo)>>,
   <<LineOther(algo), LineGood(algo), LineJunk>>,
   <<LineAbsent(algo), LineOther(algo), LineGoodBsd(algo)>>}

\* the bytes of a checksum file with the lines ls; the last line ends with
\* "\n" or does not
RECURSIVE Joined(_, _)
Joined(ls, eol) ==
  IF ls = <<>> THEN <<>>
  ELSE IF Len(ls) = 1 THEN Head(ls) \o (IF eol THEN Newline ELSE <<>>)
  ELSE Head(ls) \o Newline \o Joined(Tail(ls), eol)

\* the checksum file is there, is absent, may not be opened, is a directory
SumsEntries(bytes) ==
  {Entry("Ok", "Ok", bytes), FileNotFound, Entry("PermissionDenied", "Err", <<>>),
   Entry("Ok", "Err", <<>>)}
CheckSystems(bytes) ==
  {[p \in {PathSums, PathRaw, PathFile} |->
      IF p = PathFile THEN target ELSE sums] :
     sums \in SumsEntries(bytes), target \in {Entry("Ok", "Ok", InAbc), FileNotFound}}
CheckArgs ==
  {None, Some(<<PathSums>>), Some(<<PathSums, PathSums>>), Some(<<PathRaw>>),
   Some(<<PathAbsent, PathSums>>), Some(<<PathSums, PathAbsent>>)}

InitCheck ==
  /\ ctx \in [algo : Func, eol : BOOLEAN, checked : BOOLEAN,
              sums : SumsLines("MD5") \cup SumsLines("SHA256")]
  /\ ctx.sums \in SumsLines(ctx.algo)
  /\ ~ctx.eol => Len(ctx.sums) = 1 /\ ctx.sums[1] # <<>>
  /\ input \in CheckArgs
  /\ written \in {Joined(ctx.sums, ctx.eol)}
                   \cup {<<>> : i \in {j \in 1..Len(ctx.sums) : ctx.sums[j] = LineDash(ctx.algo)}}
  /\ base \in CheckSystems(Joined(ctx.sums, ctx.eol))
  /\ writers = [MD5 |-> hash_md5_writer, SHA256 |-> hash_sha256_writer]
  /\ pc = "files"
  /\ ret = [op |-> "new", val |-> <<>>]

\* hash.rs: exec_md5 and exec_sha256 with --check
HashCheck ==
  /\ pc = "files"
  /\ Exited("Hash::check", Hash_check(input, ctx.algo, base, written, ctx.checked))

\* md5.rs: MD5::exec with --check
Md5Check ==
  /\ pc = "files"
  /\ ctx.algo = "MD5"
  /\ Exited("MD5::check", MD5_check(input, base, written, ctx.checked))

NextCheck == HashCheck \/ Md5Check

SpecCheck == InitCheck /\ [][NextCheck]_vars

(***************************************************************************)
(* C33.  Failure accounting of check mode: check (Hash::check of hash.rs,  *)
(* MD5::check of md5.rs) processes every line of every checksum file, also *)
(* after failures, and returns Ok exactly when every checksum file could   *)
(* be opened and every line was verified; otherwise it returns the error   *)
(* whose count is the number of failed lines (not parsable, target not     *)
(* readable, digest different) plus the number of checksum files that      *)
(* could not be opened.                                                    *)
(***************************************************************************)
\* check has been run, by either program
CheckRan == Ran("Hash::check") \/ Ran("MD5::check")
\* the checksum file f can be opened: it is there, or it is "-" and stands
\* for standard input
Opens(f) ==
  \/ Stat(base, f).open = "Ok"
  \/ Stat(base, f).open = "NotFound" /\ f = Dash
\* the line is a checksum line of the algorithm for a file that can be
\* read and has the digest the line holds
Verified(l) ==
  \E name \in {PathFile, PathAbsent} :
    /\ Stat(base, name).open = "Ok" /\ Stat(base, name).read = "Ok"
    /\ l \in {GnuLine(LineText(ctx.algo, DigestAbc(ctx.algo)), TwoSpaces, name),
              BsdLine(AlgoName(ctx.algo), name, LineText(ctx.algo, DigestAbc(ctx.algo)))}
    /\ Stat(base, name).data = InAbc
CheckedFiles == unwrap_or_dash(input)
\* standard input has been read to its end before line i of checksum file
\* k is checked: it is the checksum file, or one before it was, or a line
\* before this one named it
ReadsStdin(f) == Stat(base, f).open = "NotFound" /\ f = Dash
StdinRead(k, i) ==
  \/ \E k2 \in 1..k : ReadsStdin(CheckedFiles[k2])
  \/ \E k2 \in 1..k, i2 \in 1..Len(ctx.sums) :
       /\ k2 < k \/ i2 < i
       /\ Opens(CheckedFiles[k2])
       /\ ctx.sums[i2] = LineDash(ctx.algo)
\* line i of checksum file k is verified; a line naming "-" holds the
\* digest of no bytes
VerifiedAt(k, i) ==
  IF ctx.sums[i] = LineDash(ctx.algo) THEN StdinRead(k, i) \/ written = <<>>
  ELSE Verified(ctx.sums[i])
\* the lines of the checksum file as it is wherever it opens
SumsOf(k) == IF Stat(base, CheckedFiles[k]).open = "Ok" \/ written # <<>>
               THEN 1..Len(ctx.sums) ELSE {}
FailedLines ==
  Cardinality({<<k, i>> \in (1..Len(CheckedFiles)) \X (1..Len(ctx.sums)) :
                 Opens(CheckedFiles[k]) /\ i \in SumsOf(k) /\ ~VerifiedAt(k, i)})
\* failed lines of the files that open, and the files that do not open
ExpectedFails ==
  Cardinality({k \in 1..Len(CheckedFiles) : ~Opens(CheckedFiles[k])}) + FailedLines

C33_Accounting ==
  CheckRan =>
    /\ ret.val.res \in {"Ok", "Err"}
    /\ ret.val.res = "Ok" <=> ExpectedFails = 0
    /\ ret.val.res = "Err" => ret.val.val = Fails(ExpectedFails)
    /\ Len(ret.val.said)
         = Cardinality({<<k, i>> \in (1..Len(CheckedFiles)) \X (1..Len(ctx.sums)) :
                          Opens(CheckedFiles[k]) /\ i \in SumsOf(k)})

\* Hash::check on a checksum file whose path is not UTF-8 and whose one
\* line is no checksum line: the line was counted, and check did not return
\* the error with the count 1, it panicked on the warning
C33_PanicOnWarning ==
  /\ Ran("Hash::check")
  /\ input = Some(<<PathRaw>>)
  /\ ctx.sums = <<LineJunk>>
  /\ Stat(base, PathRaw).open = "Ok" /\ Stat(base, PathRaw).read = "Ok"
  /\ ExpectedFails = 1
  /\ ret.val.res = "Panic"
  /\ ret.val.said = <<"none">>

====
